---- MODULE Spec2Model ----
(***************************************************************************)
(* Model of mcp_bridge/services/log_analyzer.py (class LogAnalyzer).        *)
(*                                                                         *)
(* Text is a sequence of one-character strings.  The nine regular          *)
(* expressions of ERROR_PATTERNS are written as sequences of regex items   *)
(* and matched by a backtracking matcher with the priorities of Python's   *)
(* re module (greedy: longest first, lazy: shortest first, alternation:    *)
(* left to right, finditer: leftmost non-overlapping matches).             *)
(***************************************************************************)
EXTENDS Integers, Sequences, FiniteSets, TLC

(***************************************************************************)
(* Characters and strings                                                  *)
(***************************************************************************)
NL == "\n"

LowerCase == <<"a","b","c","d","e","f","g","h","i","j","k","l","m",
               "n","o","p","q","r","s","t","u","v","w","x","y","z">>
UpperCase == <<"A","B","C","D","E","F","G","H","I","J","K","L","M",
               "N","O","P","Q","R","S","T","U","V","W","X","Y","Z">>

Digits == <<"0","1","2","3","4","5","6","7","8","9">>

\* str.upper() on one character
UpperChar(c) ==
    IF \E k \in 1..Len(LowerCase) : LowerCase[k] = c
    THEN UpperCase[CHOOSE k \in 1..Len(LowerCase) : LowerCase[k] = c]
    ELSE c

\* upper() that leaves the text as it is
upperUnchanged(s) == s

\* str.upper()
upper(s) == [k \in 1..Len(s) |-> UpperChar(s[k])]

IsSpace(c) == c \in {" ", "\t", NL}
IsDigit(c) == \E k \in 1..Len(Digits) : Digits[k] = c

Max(a, b) == IF a >= b THEN a ELSE b
Min(a, b) == IF a <= b THEN a ELSE b

\* sub occurs in s starting at (1-based) position pos
StartsWithAt(s, pos, sub) ==
    /\ pos + Len(sub) - 1 <= Len(s)
    /\ \A k \in 1..Len(sub) : s[pos + k - 1] = sub[k]

\* Python's `sub in s`
Contains(s, sub) == \E pos \in 1..(Len(s) + 1) : StartsWithAt(s, pos, sub)

\* str.split('\n'): the pieces between newlines; "" gives one empty piece
\* the position of the first newline of s at or after pos, Len(s) + 1 when
\* there is none
NextNL(s, pos) ==
    IF \E k \in pos..Len(s) : s[k] = NL
    THEN CHOOSE k \in pos..Len(s) : s[k] = NL /\ \A j \in pos..(k - 1) : s[j] # NL
    ELSE Len(s) + 1

RECURSIVE SplitFrom(_, _)

\* the piece from pos up to the newline at nl, and the pieces after it
SplitAt(s, pos, nl) ==
    IF nl > Len(s) THEN <<SubSeq(s, pos, Len(s))>>
    ELSE <<SubSeq(s, pos, nl - 1)>> \o SplitFrom(s, nl + 1)

SplitFrom(s, pos) == SplitAt(s, pos, NextNL(s, pos))

split(s) == SplitFrom(s, 1)

\* '\n'.join(ls)
RECURSIVE join(_)
join(ls) ==
    IF Len(ls) = 0 THEN <<>>
    ELSE IF Len(ls) = 1 THEN ls[1]
    ELSE ls[1] \o <<NL>> \o join(Tail(ls))

\* Python slice ls[a:b] with 0 <= a and b <= len(ls) (0-based, end exclusive)
Slice(ls, a, b) == SubSeq(ls, a + 1, b)

\* int(s) for a string of decimal digits
RECURSIVE int(_)
int(s) ==
    IF Len(s) = 0 THEN 0
    ELSE 10 * int(SubSeq(s, 1, Len(s) - 1))
         + (CHOOSE k \in 1..Len(Digits) : Digits[k] = s[Len(s)]) - 1

\* str.strip(): drop leading and trailing whitespace
RECURSIVE lstrip(_)
lstrip(s) == IF Len(s) > 0 /\ IsSpace(s[1]) THEN lstrip(Tail(s)) ELSE s

RECURSIVE rstrip(_)
rstrip(s) ==
    IF Len(s) > 0 /\ IsSpace(s[Len(s)]) THEN rstrip(SubSeq(s, 1, Len(s) - 1)) ELSE s

\* strip() that removes leading whitespace only
stripLeadingOnly(s) == lstrip(s)

strip(s) == rstrip(lstrip(s))

(***************************************************************************)
(* Regular expressions: a pattern is a sequence of items                   *)
(***************************************************************************)
Lit(s)          == [t |-> "lit", s |-> s]             \* literal text
Open(g)         == [t |-> "open", g |-> g]            \* "(" of group g
Close(g)        == [t |-> "close", g |-> g]           \* ")" of group g
Plus(cls, lazy) == [t |-> "plus", cls |-> cls, lazy |-> lazy]  \* X+ or X+?
Alt(alts)       == [t |-> "alt", alts |-> alts]       \* a|b|c of literals

\* character classes used by ERROR_PATTERNS
InClass(cls, c) ==
    CASE cls = "any"      -> c # NL                   \* .
      [] cls = "notquote" -> c # "\""                 \* [^"]
      [] cls = "digit"    -> IsDigit(c)               \* \d
      [] cls = "pathchar" -> ~IsSpace(c) /\ c # ":"   \* [^\s:]

\* re.IGNORECASE: literal text matches whatever the case of its letters
LitMatchesNoCase(line, pos, s) ==
    /\ pos + Len(s) - 1 <= Len(line)
    /\ \A k \in 1..Len(s) : UpperChar(line[pos + k - 1]) = UpperChar(s[k])

\* literal text compared without re.IGNORECASE
LitMatchesCase(line, pos, s) == StartsWithAt(line, pos, s)

LitMatchesAt(line, pos, s) == LitMatchesNoCase(line, pos, s)

\* number of capture groups of a pattern: len(match.groups())
NGroups(re) == Cardinality({k \in 1..Len(re) : re[k].t = "open"})

\* length of the run of characters of class cls starting at pos
RECURSIVE MaxRun(_, _, _)
MaxRun(cls, line, pos) ==
    IF pos <= Len(line) /\ InClass(cls, line[pos])
    THEN 1 + MaxRun(cls, line, pos + 1)
    ELSE 0

NoMatch == [ok |-> FALSE]

\* match items k.. of re against line from pos; caps[g] = <<start, end>> of group g
RECURSIVE MatchFrom(_, _, _, _, _)
RECURSIVE TryCount(_, _, _, _, _, _, _)
RECURSIVE TryAlt(_, _, _, _, _, _)

MatchFrom(re, line, k, pos, caps) ==
    IF k > Len(re) THEN [ok |-> TRUE, end |-> pos, caps |-> caps]
    ELSE LET it == re[k] IN
      CASE it.t = "lit" ->
             IF LitMatchesAt(line, pos, it.s)
             THEN MatchFrom(re, line, k + 1, pos + Len(it.s), caps)
             ELSE NoMatch
        [] it.t = "open" ->
             MatchFrom(re, line, k + 1, pos, [caps EXCEPT ![it.g] = <<pos, pos>>])
        [] it.t = "close" ->
             MatchFrom(re, line, k + 1, pos, [caps EXCEPT ![it.g] = <<caps[it.g][1], pos>>])
        [] it.t = "plus" ->
             LET run == MaxRun(it.cls, line, pos) IN
             IF run = 0 THEN NoMatch
             ELSE TryCount(re, line, k, pos, caps, IF it.lazy THEN 1 ELSE run, run)
        [] it.t = "alt" ->
             TryAlt(re, line, k, pos, caps, 1)

\* item k is X+ / X+?: try n repetitions, then the next count in priority order
TryCount(re, line, k, pos, caps, n, run) ==
    LET r == MatchFrom(re, line, k + 1, pos + n, caps) IN
    IF r.ok THEN r
    ELSE IF re[k].lazy
         THEN IF n < run THEN TryCount(re, line, k, pos, caps, n + 1, run) ELSE NoMatch
         ELSE IF n > 1 THEN TryCount(re, line, k, pos, caps, n - 1, run) ELSE NoMatch

\* item k is an alternation: try alternative a, then the following ones
TryAlt(re, line, k, pos, caps, a) ==
    IF a > Len(re[k].alts) THEN NoMatch
    ELSE LET r == IF LitMatchesAt(line, pos, re[k].alts[a])
                  THEN MatchFrom(re, line, k + 1, pos + Len(re[k].alts[a]), caps)
                  ELSE NoMatch
         IN IF r.ok THEN r ELSE TryAlt(re, line, k, pos, caps, a + 1)

\* the outcome of matching re at position p of the line
MatchAt(re, line, p) == MatchFrom(re, line, 1, p, [g \in 1..NGroups(re) |-> <<0, 0>>])

\* the positions from `from` on at which re matches
Starts(re, line, from) == { p \in from..(Len(line) + 1) : MatchAt(re, line, p).ok }

\* r is the result of matching at `from`: the match object
SearchAt(re, line, from, r) ==
    IF r.ok
    THEN [ok |-> TRUE, start |-> from, end |-> r.end,
          groups |-> [g \in 1..NGroups(re) |->
                         SubSeq(line, r.caps[g][1], r.caps[g][2] - 1)]]
    ELSE NoMatch

\* the least of the positions starts, 0 when there is none
LeastOf(starts) ==
    IF starts = {} THEN 0 ELSE CHOOSE p \in starts : \A q \in starts : p <= q

\* the match at position `from`, the leftmost one; 0 stands for no match
SearchFirst(re, line, from) ==
    IF from = 0 THEN NoMatch ELSE SearchAt(re, line, from, MatchAt(re, line, from))

\* re.search from position `from`: the leftmost match
Search(re, line, from) == SearchFirst(re, line, LeastOf(Starts(re, line, from)))

\* re.finditer(pattern, line, re.IGNORECASE): successive non-overlapping matches
RECURSIVE FindIterFrom(_, _, _)

\* m is the next match: it and the matches after its end
FindIterNext(re, line, m) ==
    IF ~m.ok THEN <<>>
    ELSE <<m>> \o FindIterFrom(re, line, IF m.end = m.start THEN m.end + 1 ELSE m.end)

FindIterFrom(re, line, from) == FindIterNext(re, line, Search(re, line, from))

finditer(re, line) == FindIterFrom(re, line, 1)

(***************************************************************************)
(* LogAnalyzer.ERROR_PATTERNS                                              *)
(***************************************************************************)
Extensions == << <<"p","y">>, <<"j","s">>, <<"j","a","v","a">>, <<"t","s">>,
                 <<"t","s","x">>, <<"g","o">>, <<"r","s">>, <<"r","b">>,
                 <<"p","h","p">> >>

\* r'File "([^"]+)", line (\d+)'
PatPythonFile ==
    << Lit(<<"F","i","l","e"," ","\"">>), Open(1), Plus("notquote", FALSE), Close(1),
       Lit(<<"\"",","," ","l","i","n","e"," ">>), Open(2), Plus("digit", FALSE), Close(2) >>

\* r'Traceback \(most recent call last\):'
PatTraceback ==
    << Lit(<<"T","r","a","c","e","b","a","c","k"," ","(","m","o","s","t"," ",
             "r","e","c","e","n","t"," ","c","a","l","l"," ","l","a","s","t",")",":">>) >>

\* r'at (.+?) \((.+?):(\d+):(\d+)\)'
PatJsStack ==
    << Lit(<<"a","t"," ">>), Open(1), Plus("any", TRUE), Close(1), Lit(<<" ","(">>),
       Open(2), Plus("any", TRUE), Close(2), Lit(<<":">>),
       Open(3), Plus("digit", FALSE), Close(3), Lit(<<":">>),
       Open(4), Plus("digit", FALSE), Close(4), Lit(<<")">>) >>

\* r'Error: (.+)'
PatJsError ==
    << Lit(<<"E","r","r","o","r",":"," ">>), Open(1), Plus("any", FALSE), Close(1) >>

\* r'at (.+?)\((.+?):(\d+)\)'
PatJavaStack ==
    << Lit(<<"a","t"," ">>), Open(1), Plus("any", TRUE), Close(1), Lit(<<"(">>),
       Open(2), Plus("any", TRUE), Close(2), Lit(<<":">>),
       Open(3), Plus("digit", FALSE), Close(3), Lit(<<")">>) >>

\* r'([^\s:]+\.(py|js|java|ts|tsx|go|rs|rb|php)):(\d+):'
PatExtColon ==
    << Open(1), Plus("pathchar", FALSE), Lit(<<".">>), Open(2), Alt(Extensions), Close(2),
       Close(1), Lit(<<":">>), Open(3), Plus("digit", FALSE), Close(3), Lit(<<":">>) >>

\* r'([^\s:]+\.(py|js|java|ts|tsx|go|rs|rb|php))\((\d+)\)'
PatExtParen ==
    << Open(1), Plus("pathchar", FALSE), Lit(<<".">>), Open(2), Alt(Extensions), Close(2),
       Close(1), Lit(<<"(">>), Open(3), Plus("digit", FALSE), Close(3), Lit(<<")">>) >>

\* r'([^\s:]+/[^\s:]+):(\d+)'
PatSlash ==
    << Open(1), Plus("pathchar", FALSE), Lit(<<"/">>), Plus("pathchar", FALSE), Close(1),
       Lit(<<":">>), Open(2), Plus("digit", FALSE), Close(2) >>

\* r'([^\s:]+\\[^\s:]+):(\d+)'
PatBackslash ==
    << Open(1), Plus("pathchar", FALSE), Lit(<<"\\">>), Plus("pathchar", FALSE), Close(1),
       Lit(<<":">>), Open(2), Plus("digit", FALSE), Close(2) >>

\* the list without the path.ext:line: pattern
ERROR_PATTERNS_NoExtColon ==
    << [re |-> PatPythonFile, type |-> "python"],
       [re |-> PatTraceback,  type |-> "python"],
       [re |-> PatJsStack,    type |-> "javascript"],
       [re |-> PatJsError,    type |-> "javascript"],
       [re |-> PatJavaStack,  type |-> "java"],
       [re |-> PatExtParen,   type |-> "generic"],
       [re |-> PatSlash,      type |-> "generic"],
       [re |-> PatBackslash,  type |-> "generic"] >>

ERROR_PATTERNS ==
    << [re |-> PatPythonFile, type |-> "python"],
       [re |-> PatTraceback,  type |-> "python"],
       [re |-> PatJsStack,    type |-> "javascript"],
       [re |-> PatJsError,    type |-> "javascript"],
       [re |-> PatJavaStack,  type |-> "java"],
       [re |-> PatExtColon,   type |-> "generic"],
       [re |-> PatExtParen,   type |-> "generic"],
       [re |-> PatSlash,      type |-> "generic"],
       [re |-> PatBackslash,  type |-> "generic"] >>

error_keywords ==
    << <<"E","R","R","O","R">>, <<"E","X","C","E","P","T","I","O","N">>,
       <<"F","A","I","L","E","D">>, <<"C","R","I","T","I","C","A","L">>,
       <<"F","A","T","A","L">> >>

(***************************************************************************)
(* Log lines the model's log files are made of                             *)
(***************************************************************************)
\* File "app/views.py", line 42
LinePythonFile ==
    <<"F","i","l","e"," ","\"","a","p","p","/","v","i","e","w","s",".","p","y","\"",
      ","," ","l","i","n","e"," ","4","2">>
\*     raise ValueError("bad")
LineRaise ==
    <<" "," "," "," ","r","a","i","s","e"," ","V","a","l","u","e","E","r","r","o","r",
      "(","\"","b","a","d","\"",")">>
\* INFO: server started
LineInfo ==
    <<"I","N","F","O",":"," ","s","e","r","v","e","r"," ","s","t","a","r","t","e","d">>
\* ERROR: connection refused
LineError ==
    <<"E","R","R","O","R",":"," ","c","o","n","n","e","c","t","i","o","n"," ",
      "r","e","f","u","s","e","d">>
\* src/main.go:88: nil pointer
LineGo ==
    <<"s","r","c","/","m","a","i","n",".","g","o",":","8","8",":"," ","n","i","l"," ",
      "p","o","i","n","t","e","r">>
\* Traceback (most recent call last):
LineTraceback ==
    <<"T","r","a","c","e","b","a","c","k"," ","(","m","o","s","t"," ","r","e","c","e","n","t",
      " ","c","a","l","l"," ","l","a","s","t",")",":">>
\* at f (a.js:1:2)
LineJs == <<"a","t"," ","f"," ","(","a",".","j","s",":","1",":","2",")">>
\*     at Foo.run(Foo.java:7)
LineJava ==
    <<" "," "," "," ","a","t"," ","F","o","o",".","r","u","n","(","F","o","o",".",
      "j","a","v","a",":","7",")">>
\* main.py(3) failed
LineParenFailed == <<"m","a","i","n",".","p","y","(","3",")"," ","f","a","i","l","e","d">>
\* C:\app\x.py:9
LineBackslash == <<"C",":","\\","a","p","p","\\","x",".","p","y",":","9">>
\* File " a.py ", line 3
LinePadded ==
    <<"F","i","l","e"," ","\""," ","a",".","p","y"," ","\"",","," ","l","i","n","e"," ","3">>
\* File "a.py", line 3
LinePlain ==
    <<"F","i","l","e"," ","\"","a",".","p","y","\"",","," ","l","i","n","e"," ","3">>
\* ./a.py:3
LineDotSlash == <<".","/","a",".","p","y",":","3">>
\* a/b:1 c/d:2
LineTwo == <<"a","/","b",":","1"," ","c","/","d",":","2">>
\* FATAL
LineFatal == <<"F","A","T","A","L">>
\* ok
LineOk == <<"o","k">>
LineEmpty == <<>>

\* 'INFO: worker 7 finished job 1234 in 56 ms and 8 jobs are left in the queue
\* with 3 workers idle now ok and worker 7 finished job 1234 in 56 ms and 8 jobs
\* are left in the queue with 3 workers idle now ok' (one line)
LineWorker ==
    <<"I","N","F","O",":"," ","w","o","r","k","e","r"," ","7"," ","f",
      "i","n","i","s","h","e","d"," ","j","o","b"," ","1","2","3","4",
      " ","i","n"," ","5","6"," ","m","s"," ","a","n","d"," ","8"," ",
      "j","o","b","s"," ","a","r","e"," ","l","e","f","t"," ","i","n",
      " ","t","h","e"," ","q","u","e","u","e"," ","w","i","t","h"," ",
      "3"," ","w","o","r","k","e","r","s"," ","i","d","l","e"," ","n",
      "o","w"," ","o","k"," ","a","n","d"," ","w","o","r","k","e","r",
      " ","7"," ","f","i","n","i","s","h","e","d"," ","j","o","b"," ",
      "1","2","3","4"," ","i","n"," ","5","6"," ","m","s"," ","a","n",
      "d"," ","8"," ","j","o","b","s"," ","a","r","e"," ","l","e","f",
      "t"," ","i","n"," ","t","h","e"," ","q","u","e","u","e"," ","w",
      "i","t","h"," ","3"," ","w","o","r","k","e","r","s"," ","i","d",
      "l","e"," ","n","o","w"," ","o","k">>

Catalogue ==
    << LinePythonFile, LineRaise, LineInfo, LineError, LineGo, LineTraceback, LineJs,
       LineJava, LineParenFailed, LineBackslash, LinePadded, LinePlain, LineDotSlash,
       LineTwo, LineFatal, LineOk, LineEmpty, LineWorker >>

(***************************************************************************)
(* The matches of the patterns on the catalogue's lines are computed once  *)
(* (finditer is a function of the pattern and the line only)               *)
(***************************************************************************)
RECURSIVE AllPatternsFrom(_, _)
AllPatternsFrom(line, p) ==
    IF p > Len(ERROR_PATTERNS) THEN <<>>
    ELSE <<finditer(ERROR_PATTERNS[p].re, line)>> \o AllPatternsFrom(line, p + 1)

RECURSIVE MemoFrom(_)
MemoFrom(k) ==
    IF k > Len(Catalogue) THEN <<>>
    ELSE <<AllPatternsFrom(Catalogue[k], 1)>> \o MemoFrom(k + 1)

MatchMemo == MemoFrom(1)

\* matches = re.finditer(pattern, line, re.IGNORECASE) for pattern p
Matches(p, line) ==
    IF \E k \in 1..Len(Catalogue) : Catalogue[k] = line
    THEN MatchMemo[CHOOSE k \in 1..Len(Catalogue) : Catalogue[k] = line][p]
    ELSE finditer(ERROR_PATTERNS[p].re, line)

(***************************************************************************)
(* LogAnalyzer.extract_errors: the scan of the log text                    *)
(*                                                                         *)
(* An occurrence is the dict the code builds: a record with the keys type, *)
(* line_in_log, raw_line, context and, when the pattern yields them,       *)
(* file_path and line_number.  The key `pattern` is instrumentation only:  *)
(* the index in ERROR_PATTERNS of the pattern that matched, 0 for the      *)
(* keyword pass.                                                           *)
(***************************************************************************)
\* a window that also takes the fifth line after line i
contextSymmetric(lines, i) ==
    join(Slice(lines, Max(0, i - 5), Min(Len(lines), i + 6)))

\* a window that starts one line late
contextLateStart(lines, i) ==
    join(Slice(lines, Max(0, i - 4), Min(Len(lines), i + 5)))

\* '\n'.join(lines[max(0, i - 5):min(len(lines), i + 5)]), i 0-based
context(lines, i) ==
    join(Slice(lines, Max(0, i - 5), Min(Len(lines), i + 5)))

\* only the file path is stored
FileFieldsPathOnly(path, number) == [file_path |-> path]

\* error_info['file_path'] = ...; error_info['line_number'] = int(...)
FileFields(path, number) == [file_path |-> path, line_number |-> int(number)]

\* the keys that depend on the pattern's type and on its number of groups
ExtractedFields(error_type, groups) ==
    IF error_type = "python" /\ Len(groups) >= 2
    THEN FileFields(groups[1], groups[2])
    ELSE IF error_type = "javascript" /\ Len(groups) >= 3
    THEN FileFields(groups[2], groups[3])
    ELSE IF error_type = "java" /\ Len(groups) >= 3
    THEN FileFields(groups[2], groups[3])
    ELSE IF error_type = "generic"
    THEN IF Len(groups) >= 3 THEN FileFields(groups[1], groups[3])
         ELSE IF Len(groups) >= 2 THEN FileFields(groups[1], groups[2])
         ELSE <<>>
    ELSE <<>>

\* the dict appended for match m of pattern p on line i (0-based)
error_info(lines, i, p, m) ==
    [type |-> ERROR_PATTERNS[p].type, line_in_log |-> i + 1, raw_line |-> lines[i + 1],
     context |-> context(lines, i), pattern |-> p]
    @@ ExtractedFields(ERROR_PATTERNS[p].type, m.groups)

\* only the first match of the pattern on the line is kept
MatchLoopFirstOnly(lines, i, p, matches) ==
    [k \in 1..Min(1, Len(matches)) |-> error_info(lines, i, p, matches[k])]

\* for match in matches: ... errors.append(error_info)
MatchLoopOver(lines, i, p, matches) ==
    [k \in 1..Len(matches) |-> error_info(lines, i, p, matches[k])]

MatchLoop(lines, i, p) == MatchLoopOver(lines, i, p, Matches(p, lines[i + 1]))

\* the patterns tried last to first
RECURSIVE PatternLoopReversed(_, _, _)
PatternLoopReversed(lines, i, p) ==
    IF p > Len(ERROR_PATTERNS) THEN <<>>
    ELSE PatternLoopReversed(lines, i, p + 1) \o MatchLoop(lines, i, p)

\* for pattern, error_type in self.ERROR_PATTERNS: ...
RECURSIVE PatternLoop(_, _, _)
PatternLoop(lines, i, p) ==
    IF p > Len(ERROR_PATTERNS) THEN <<>>
    ELSE MatchLoop(lines, i, p) \o PatternLoop(lines, i, p + 1)

\* for i, line in enumerate(lines): ...   (first loop)
RECURSIVE StructuredPass(_, _)
StructuredPass(lines, i) ==
    IF i >= Len(lines) THEN <<>>
    ELSE PatternLoop(lines, i, 1) \o StructuredPass(lines, i + 1)

\* any(line.upper() in keyword for keyword in error_keywords)
HasKeywordReversed(line) ==
    \E k \in 1..Len(error_keywords) : Contains(error_keywords[k], upper(line))

\* any(keyword in line.upper() for keyword in error_keywords)
HasKeyword(line) ==
    \E k \in 1..Len(error_keywords) : Contains(upper(line), error_keywords[k])

\* the keyword pass without its check for lines already captured
AlreadyCapturedNever(errors, i) == FALSE

\* any(e['line_in_log'] == i + 1 for e in errors)
AlreadyCaptured(errors, i) == \E k \in 1..Len(errors) : errors[k].line_in_log = i + 1

\* the dict appended by the keyword pass for line i (0-based)
keyword_info(lines, i) ==
    [type |-> "generic", line_in_log |-> i + 1, raw_line |-> lines[i + 1],
     context |-> context(lines, i), pattern |-> 0]

\* for i, line in enumerate(lines): ...   (second loop)
RECURSIVE KeywordPass(_, _, _)
KeywordPass(lines, i, errors) ==
    IF i >= Len(lines) THEN errors
    ELSE KeywordPass(lines, i + 1,
            IF HasKeyword(lines[i + 1]) /\ ~AlreadyCaptured(errors, i)
            THEN Append(errors, keyword_info(lines, i))
            ELSE errors)

\* the two loops over lines = self.content.split('\n')
ScanLines(lines) == KeywordPass(lines, 0, StructuredPass(lines, 0))

\* the list extract_errors builds from the content
ScanContent(text) == ScanLines(split(text))

(***************************************************************************)
(* LogAnalyzer: the object and its methods                                 *)
(*                                                                         *)
(* self is the record [content, errors, reads, scans]: the object's fields *)
(* and, as instrumentation, how often the object has read its file and how *)
(* often it has run the two loops over the lines.  A method is an operator *)
(* from (self, the file on disk) to the record [self, raised, ret]: self   *)
(* after the call, the exception raised ("" when the call returned) and    *)
(* the value returned.                                                     *)
(***************************************************************************)
None == <<"None">>            \* content before the first read
NoFile == <<"NoFile">>        \* no file exists at file_path
NoLine == -1                  \* error.get('line_number') of a dict without the key
LogPath == "app.log"          \* self.file_path

\* Python truth of self.content: None and "" are false
Truthy(text) == text # None /\ text # <<>>

Returned(self, ret) == [self |-> self, raised |-> "", ret |-> ret]
Raised(self, exc) == [self |-> self, raised |-> exc, ret |-> <<>>]

\* LogAnalyzer(file_path): the object __init__ leaves
LogAnalyzer == [content |-> None, errors |-> <<>>, reads |-> 0, scans |-> 0]

\* read_log that takes a missing file for an empty one
read_logMissingIsEmpty(self, file) ==
    IF file = NoFile THEN Returned([self EXCEPT !.content = <<>>, !.reads = @ + 1], <<>>)
    ELSE Returned([self EXCEPT !.content = file, !.reads = @ + 1], file)

read_log(self, file) ==
    IF file = NoFile THEN Raised(self, "FileNotFoundError")
    ELSE Returned([self EXCEPT !.content = file, !.reads = @ + 1], file)

\* self.errors.extend(errors); return self.errors
SetErrorsExtend(self, errs) ==
    Returned([self EXCEPT !.errors = @ \o errs], self.errors \o errs)

\* self.errors = errors; return errors
SetErrors(self, errs) == Returned([self EXCEPT !.errors = errs], errs)

\* the rest of extract_errors after the outcome r of `if not self.content: ...`
ExtractAfterRead(r) ==
    IF r.raised # "" THEN Raised(r.self, r.raised)
    ELSE SetErrors([r.self EXCEPT !.scans = @ + 1], ScanContent(r.self.content))

extract_errors(self, file) ==
    ExtractAfterRead(IF ~Truthy(self.content) THEN read_log(self, file)
                     ELSE Returned(self, <<>>))

\* if not self.errors: self.extract_errors()
EnsureErrors(self, file) ==
    IF self.errors = <<>> THEN extract_errors(self, file) ELSE Returned(self, <<>>)

\* (file_path, line_number) not in file_refs
InRefs(file_refs, ref) == \E k \in 1..Len(file_refs) : file_refs[k] = ref

\* the (file_path, line_number) tuple of one error dict that has a file_path
FileRefOf(error) ==
    << strip(error.file_path),
       IF "line_number" \in DOMAIN error THEN error.line_number ELSE NoLine >>

\* for error in self.errors: ...
RECURSIVE FileRefLoop(_, _, _)
FileRefLoop(errs, k, file_refs) ==
    IF k > Len(errs) THEN file_refs
    ELSE FileRefLoop(errs, k + 1,
            IF "file_path" \in DOMAIN errs[k] /\ ~InRefs(file_refs, FileRefOf(errs[k]))
            THEN Append(file_refs, FileRefOf(errs[k]))
            ELSE file_refs)

\* the rest of get_file_references after the outcome r of its first statement
FileRefsAfterEnsure(r) ==
    IF r.raised # "" THEN Raised(r.self, r.raised)
    ELSE Returned(r.self, FileRefLoop(r.self.errors, 1, <<>>))

get_file_references(self, file) == FileRefsAfterEnsure(EnsureErrors(self, file))

\* the dict get_summary returns; error_types is a list in no particular order
Summary(errs, file_refs) ==
    [total_errors |-> Len(errs),
     error_types |-> {errs[k].type : k \in 1..Len(errs)},
     file_references |-> Len(file_refs),
     log_file |-> LogPath]

\* the dict is built from self.errors as it is when len(self.errors) is
\* evaluated (errs) and from the outcome f of self.get_file_references()
SummaryAfterRefs(errs, f) ==
    IF f.raised # "" THEN Raised(f.self, f.raised)
    ELSE Returned(f.self, Summary(errs, f.ret))

\* the rest of get_summary after the outcome r of its first statement
SummaryAfterEnsure(r, file) ==
    IF r.raised # "" THEN Raised(r.self, r.raised)
    ELSE SummaryAfterRefs(r.self.errors, get_file_references(r.self, file))

\* get_summary without its `if not self.errors` guard
get_summaryNoExtract(self, file) ==
    SummaryAfterRefs(self.errors, get_file_references(self, file))

get_summary(self, file) == SummaryAfterEnsure(EnsureErrors(self, file), file)

(***************************************************************************)
(* The log files the analyzer is run on                                    *)
(***************************************************************************)
MaxLines == 2          \* documents of up to MaxLines lines of MixLines
MaxWindowLines == 12   \* documents of up to MaxWindowLines short lines

\* "INFO: server started\nERROR: connection refused\n"
DocError == join(<<LineInfo, LineError, LineEmpty>>)
\* 'File "app/views.py", line 42\n    raise ValueError("bad")\n'
DocPython == join(<<LinePythonFile, LineRaise, LineEmpty>>)
\* "src/main.go:88: nil pointer\n"
DocGo == join(<<LineGo, LineEmpty>>)
\* ""
DocEmpty == <<>>
\* 'File " a.py ", line 3\nFile "a.py", line 3\n./a.py:3'
DocPaths == join(<<LinePadded, LinePlain, LineDotSlash>>)

\* every one-line text of the catalogue
SingleDocs == { Catalogue[k] : k \in 1..Len(Catalogue) }

\* the lines combined into texts of several lines
MixLines ==
    { LineError, LineGo, LineParenFailed, LinePadded, LinePlain, LineDotSlash,
      LineFatal, LineOk }

\* every text of 2..MaxLines lines of MixLines
ShortDocs == { join(ls) : ls \in UNION { [1..n -> MixLines] : n \in 2..MaxLines } }

\* n lines "ok" but for line p
WindowDoc(n, p, line) == join([k \in 1..n |-> IF k = p THEN line ELSE LineOk])

\* texts of up to MaxWindowLines lines with one line that yields an occurrence
WindowDocs ==
    { WindowDoc(n, p, line) :
        n \in 1..MaxWindowLines, p \in 1..MaxWindowLines, line \in {LineFatal, LineDotSlash} }

Documents ==
    {DocError, DocPython, DocGo, DocEmpty, DocPaths} \cup SingleDocs \cup ShortDocs \cup WindowDocs

(***************************************************************************)
(* State machine: one analyzer, its methods called in any order            *)
(***************************************************************************)
VARIABLES
    disk,      \* the text of the file at file_path, or NoFile
    content,   \* self.content
    errors,    \* self.errors
    result,    \* the last call: [op, raised, ret], what self.errors was before
               \* it, and how often it read the file and scanned the content
    db,        \* the rows of GitLabConnection, Repository and AIModel
    request,   \* the tool call the server works on, and whether it is answered
    calls,     \* the collaborators the handler of the request has called, in order
    table,     \* the AIModel rows by primary key, and the save() calls under way
    oauth,     \* a GitLabConnection row, the GitLabService built on it, the clock
    stdio      \* the lines on stdin, what run has read of them and written to stdout

vars == <<disk, content, errors, result, db, request, calls, table, oauth, stdio>>

\* no table has a row
EmptyDb == [connections |-> {}, repositories |-> {}, models |-> <<>>]

NoRequest == [status |-> "none", tool |-> "", connection_name |-> "",
              repository_name |-> "", model_name |-> ""]

\* no save() of an AIModel, no OAuth exchange and no run loop
NoTable == <<>>
NoOAuth == <<>>
NoStdio == <<>>

\* the analyzer is used on its own: no server, no tables
NoServer ==
    /\ db = EmptyDb /\ request = NoRequest /\ calls = <<>>
    /\ table = NoTable /\ oauth = NoOAuth /\ stdio = NoStdio

\* the analyzer as a call finds it, the call's reads and scans not yet counted
Self == [content |-> content, errors |-> errors, reads |-> 0, scans |-> 0]

\* what a call leaves in the analyzer and in result
Outcome(op, r) ==
    /\ content' = r.self.content
    /\ errors' = r.self.errors
    /\ result' = [op |-> op, raised |-> r.raised, ret |-> r.ret, before |-> errors,
                  reads |-> r.self.reads, scans |-> r.self.scans]

Init ==
    /\ disk \in Documents \cup {NoFile}
    /\ content = None
    /\ errors = <<>>
    /\ result = [op |-> "__init__", raised |-> "", ret |-> <<>>, before |-> <<>>,
                 reads |-> 0, scans |-> 0]
    /\ NoServer

Call(op, r) ==
    /\ Outcome(op, r)
    /\ UNCHANGED <<disk, db, request, calls, table, oauth, stdio>>

ReadLog == Call("read_log", read_log(Self, disk))

ExtractErrors == Call("extract_errors", extract_errors(Self, disk))

GetFileReferences == Call("get_file_references", get_file_references(Self, disk))

GetSummary == Call("get_summary", get_summary(Self, disk))

Next == ReadLog \/ ExtractErrors \/ GetFileReferences \/ GetSummary

Spec == Init /\ [][Next]_vars

(***************************************************************************)
(* State machine: one analyzer whose file changes between the calls of     *)
(* extract_errors, get_file_references and get_summary                     *)
(***************************************************************************)
\* what the file at file_path may hold
DiskDocs == {DocEmpty, DocError, DocGo, DocPaths, LineFatal, LineOk}

InitDisk ==
    /\ disk \in DiskDocs \cup {NoFile}
    /\ content = None
    /\ errors = <<>>
    /\ result = [op |-> "__init__", raised |-> "", ret |-> <<>>, before |-> <<>>,
                 reads |-> 0, scans |-> 0]
    /\ NoServer

\* the file is rewritten, created or removed between two calls
ChangeFile ==
    /\ disk' \in (DiskDocs \cup {NoFile}) \ {disk}
    /\ UNCHANGED <<content, errors, result, db, request, calls, table, oauth, stdio>>

NextDisk == ChangeFile \/ ExtractErrors \/ GetFileReferences \/ GetSummary

SpecDisk == InitDisk /\ [][NextDisk]_vars

(***************************************************************************)
(* MCPServer: the tables its handlers read                                 *)
(***************************************************************************)
\* model_name = None (and '', which `if model_name:` treats alike)
NoModelName == ""

\* what .first() gives for a queryset without rows: None
NoModel == [provider |-> 0, provider_type |-> "", model_id |-> "", display_name |-> "",
            is_active |-> FALSE]

\* AIModel rows: provider is the key of the LLMProvider row, provider_type its type
Gpt4o == [provider |-> 1, provider_type |-> "openai", model_id |-> "gpt-4o",
          display_name |-> "GPT-4o", is_active |-> TRUE]
Llama3 == [provider |-> 2, provider_type |-> "ollama", model_id |-> "llama3",
           display_name |-> "Llama 3", is_active |-> TRUE]
QwenCoder == [provider |-> 2, provider_type |-> "ollama", model_id |-> "qwen2.5-coder:7b",
              display_name |-> "Qwen Coder", is_active |-> TRUE]

Inactive(row) == [row EXCEPT !.is_active = FALSE]

\* AIModel tables, their rows in Meta.ordering = ['provider', 'model_id']
AIModelTables ==
    { a \o b \o c :
        a \in {<<>>, <<Gpt4o>>},
        b \in {<<>>, <<Llama3>>, <<Inactive(Llama3)>>},
        c \in {<<>>, <<QwenCoder>>} }

GitLab == [name |-> "gitlab", is_active |-> TRUE]

Backend == [gitlab_connection |-> "gitlab", local_name |-> "backend", is_active |-> TRUE,
            force_ollama |-> FALSE]

\* the GitLabConnection rows with the Repository rows that refer to them
ConnectionTables ==
    { [connections |-> {}, repositories |-> {}],
      [connections |-> {GitLab}, repositories |-> {}],
      [connections |-> {GitLab}, repositories |-> {Backend}],
      [connections |-> {GitLab}, repositories |-> {[Backend EXCEPT !.force_ollama = TRUE]}],
      [connections |-> {GitLab}, repositories |-> {Inactive([Backend EXCEPT !.force_ollama = TRUE])}],
      [connections |-> {Inactive(GitLab)}, repositories |-> {[Backend EXCEPT !.force_ollama = TRUE]}] }

Databases ==
    { [connections |-> t.connections, repositories |-> t.repositories, models |-> m] :
        t \in ConnectionTables, m \in AIModelTables }

\* queryset.first()
first(rows) == IF rows = <<>> THEN NoModel ELSE rows[1]

\* Q(display_name=model_name) | Q(model_id=model_name)
NamedBy(m, model_name) == m.display_name = model_name \/ m.model_id = model_name

\* the filter of the privacy mode without provider__provider_type='ollama'
AnyModelNamed(models, model_name) ==
    first(SelectSeq(models, LAMBDA m : NamedBy(m, model_name) /\ m.is_active))

\* AIModel.objects.filter(Q(...) | Q(...), provider__provider_type='ollama',
\*                        is_active=True).first()
OllamaModelNamed(models, model_name) ==
    first(SelectSeq(models, LAMBDA m : /\ NamedBy(m, model_name)
                                       /\ m.provider_type = "ollama"
                                       /\ m.is_active))

\* AIModel.objects.filter(provider__provider_type='ollama', is_active=True).first()
DefaultOllamaModel(models) ==
    first(SelectSeq(models, LAMBDA m : m.provider_type = "ollama" /\ m.is_active))

\* AIModel.objects.filter(Q(...) | Q(...), is_active=True).first()
ModelNamed(models, model_name) ==
    first(SelectSeq(models, LAMBDA m : NamedBy(m, model_name) /\ m.is_active))

\* what AIService.get_default_model() may return: a row of the table, or None
DefaultModels(models) == {NoModel} \cup { models[k] : k \in 1..Len(models) }

PrivacyModeError ==
    "Privacy mode enabled for this repository. Please configure an Ollama model in Django Admin."
NoModelError == "No AI model available. Please configure one in Django Admin."
NoErrorsMessage == "No errors found in log file"

(***************************************************************************)
(* MCPServer.analyze_logs and MCPServer.generate_fix                       *)
(*                                                                         *)
(* A handler is an operator to the record [self, raised, ret, calls]: the  *)
(* analyzer it made, as the handler leaves it; raised is "" because every  *)
(* handler catches Exception; the dict it returns; the collaborators it    *)
(* called, in order.  o is the set of the collaborators that raise when    *)
(* called.  str(e) of an exception is modelled by the exception's name.    *)
(***************************************************************************)
ExcerptLength == 2000      \* analyzer.content[:2000]

Collaborators == {"get_file_lines", "generate_fix_suggestion", "trigger_notifications"}

Handled(self, called, ret) == [self |-> self, raised |-> "", ret |-> ret, calls |-> called]

\* except Exception as e: return {'error': str(e)}
Caught(self, called, exc) == Handled(self, called, [error |-> exc])

\* the list comprehension over file_refs
RefDicts(file_refs) ==
    [k \in 1..Len(file_refs) |->
        [file_path |-> file_refs[k][1], line_number |-> file_refs[k][2]]]

AnalyzeAfterRefs(errs, summary, f) ==
    IF f.raised # "" THEN Caught(f.self, <<>>, f.raised)
    ELSE Handled(f.self, <<>>,
                 [summary |-> summary, errors |-> errs, file_references |-> RefDicts(f.ret)])

AnalyzeAfterSummary(errs, s, file) ==
    IF s.raised # "" THEN Caught(s.self, <<>>, s.raised)
    ELSE AnalyzeAfterRefs(errs, s.ret, get_file_references(s.self, file))

AnalyzeAfterExtract(r, file) ==
    IF r.raised # "" THEN Caught(r.self, <<>>, r.raised)
    ELSE AnalyzeAfterSummary(r.ret, get_summary(r.self, file), file)

analyze_logs(file) == AnalyzeAfterExtract(extract_errors(LogAnalyzer, file), file)

\* code_context = None
NoCodeContext == [fetched |-> FALSE, file_path |-> <<>>, first |-> 0, last |-> 0]

\* f"File: {file_path}\nLines {lines[0]}-{lines[-1]}:\n{content}", where
\* get_file_lines gives lines = list(range(start_line, end_line + 1))
CodeContext(file_path, start_line, end_line) ==
    [fetched |-> TRUE, file_path |-> file_path, first |-> start_line, last |-> end_line]

\* analyzer.content[:2000] if analyzer.content else None
LogExcerpt(text) ==
    IF Truthy(text) THEN Slice(text, 0, Min(Len(text), ExcerptLength)) ELSE None

\* what ai_service.generate_fix_suggestion returns
FixResult == [suggestion |-> "suggestion"]

\* the return after NotificationService.trigger_notifications was called
FixAfterNotify(self, called, model, first_error, o) ==
    IF "trigger_notifications" \in o THEN Caught(self, called, "NotificationError")
    ELSE Handled(self, called,
                 [error_analyzed |-> first_error, fix_suggestion |-> FixResult,
                  model_used |-> model.display_name])

\* the notification is sent before the fix is generated
FixAfterAINotifyFirst(self, called, model, first_error, o) ==
    IF "generate_fix_suggestion" \in o THEN Caught(self, called, "AIServiceError")
    ELSE FixAfterNotify(self,
            <<[call |-> "trigger_notifications", trigger_type |-> "on_fix_generated",
               error_details |-> first_error, fix_suggestion |-> FixResult.suggestion]>>
            \o called,
            model, first_error, o)

\* the rest of the handler after ai_service.generate_fix_suggestion was called
FixAfterAI(self, called, model, first_error, o) ==
    IF "generate_fix_suggestion" \in o THEN Caught(self, called, "AIServiceError")
    ELSE FixAfterNotify(self,
            Append(called,
                   [call |-> "trigger_notifications", trigger_type |-> "on_fix_generated",
                    error_details |-> first_error, fix_suggestion |-> FixResult.suggestion]),
            model, first_error, o)

\* fix_result = ai_service.generate_fix_suggestion(...)
FixAI(self, called, model, first_error, code_context, o) ==
    FixAfterAI(self,
        Append(called,
               [call |-> "generate_fix_suggestion", error_context |-> first_error.context,
                code_context |-> code_context, log_content |-> LogExcerpt(self.content)]),
        model, first_error, o)

\* 'file_path' in first_error and first_error.get('line_number')
HasFileReference(error) ==
    /\ "file_path" \in DOMAIN error
    /\ "line_number" \in DOMAIN error
    /\ error.line_number # 0

\* gitlab_service.get_file_lines(repository, file_path, max(1, line_num - 10), line_num + 10)
FetchCall(repository, error) ==
    [call |-> "get_file_lines", repository |-> repository.local_name,
     file_path |-> error.file_path, start_line |-> Max(1, error.line_number - 10),
     end_line |-> error.line_number + 10]

\* the try block around the fetch: a failure is logged and code_context stays None
FixFetch(self, called, model, repository, first_error, o) ==
    IF HasFileReference(first_error)
    THEN FixAI(self, Append(called, FetchCall(repository, first_error)), model, first_error,
               IF "get_file_lines" \in o THEN NoCodeContext
               ELSE CodeContext(first_error.file_path,
                                Max(1, first_error.line_number - 10),
                                first_error.line_number + 10),
               o)
    ELSE FixAI(self, called, model, first_error, NoCodeContext, o)

\* gitlab_service = GitLabService(connection); ai_service = AIService(model);
\* first_error = errors[0]
FixServices(self, called, connection, repository, model, errs, o) ==
    FixFetch(self,
        called \o <<[call |-> "GitLabService", connection |-> connection.name],
                    [call |-> "AIService", model |-> model]>>,
        model, repository, errs[1], o)

\* if not model: return {'error': ...}
FixWithModel(self, called, connection, repository, model, message, errs, o) ==
    IF model = NoModel THEN Handled(self, called, [error |-> message])
    ELSE FixServices(self, called, connection, repository, model, errs, o)

\* the model of the privacy mode, chosen without regard to the provider
PrivacyModelAnyProvider(models, model_name) ==
    IF model_name # NoModelName THEN AnyModelNamed(models, model_name)
    ELSE first(SelectSeq(models, LAMBDA m : m.is_active))

\* privacy mode: only Ollama models
PrivacyModel(models, model_name) ==
    IF model_name # NoModelName THEN OllamaModelNamed(models, model_name)
    ELSE DefaultOllamaModel(models)

\* normal mode: any model
NormalModel(models, model_name, default) ==
    IF model_name # NoModelName THEN ModelNamed(models, model_name) ELSE default

\* if repository.force_ollama: ... else: ...
FixModel(self, called, d, req, connection, repository, default, errs, o) ==
    IF repository.force_ollama
    THEN FixWithModel(self, called, connection, repository,
                      PrivacyModel(d.models, req.model_name), PrivacyModeError, errs, o)
    ELSE FixWithModel(self, called, connection, repository,
                      NormalModel(d.models, req.model_name, default), NoModelError, errs, o)

\* Repository.objects.get(gitlab_connection=connection, local_name=..., is_active=True)
RepositoryRows(d, req, connection) ==
    { r \in d.repositories : /\ r.gitlab_connection = connection.name
                             /\ r.local_name = req.repository_name
                             /\ r.is_active }

FixRepository(self, called, d, req, connection, default, errs, o) ==
    IF RepositoryRows(d, req, connection) = {}
    THEN Caught(self, called, "Repository.DoesNotExist")
    ELSE FixModel(self, called, d, req, connection,
                  CHOOSE r \in RepositoryRows(d, req, connection) : TRUE, default, errs, o)

\* GitLabConnection.objects.get(name=connection_name, is_active=True)
ConnectionRows(d, req) ==
    { c \in d.connections : c.name = req.connection_name /\ c.is_active }

FixConnection(self, called, d, req, default, errs, o) ==
    IF ConnectionRows(d, req) = {}
    THEN Caught(self, called, "GitLabConnection.DoesNotExist")
    ELSE FixRepository(self,
            Append(called, [call |-> "Repository.objects.get", local_name |-> req.repository_name]),
            d, req, CHOOSE c \in ConnectionRows(d, req) : TRUE, default, errs, o)

\* the connection and the repository are looked up before the list is tested
FixAfterRefsLookupFirst(errs, f, d, req, default, o) ==
    IF f.raised # "" THEN Caught(f.self, <<>>, f.raised)
    ELSE IF errs = <<>>
    THEN Handled(f.self,
            <<[call |-> "GitLabConnection.objects.get", name |-> req.connection_name]>>,
            [message |-> NoErrorsMessage])
    ELSE FixConnection(f.self,
            <<[call |-> "GitLabConnection.objects.get", name |-> req.connection_name]>>,
            d, req, default, errs, o)

\* if not errors: return {'message': 'No errors found in log file'}
FixAfterRefs(errs, f, d, req, default, o) ==
    IF f.raised # "" THEN Caught(f.self, <<>>, f.raised)
    ELSE IF errs = <<>> THEN Handled(f.self, <<>>, [message |-> NoErrorsMessage])
    ELSE FixConnection(f.self,
            <<[call |-> "GitLabConnection.objects.get", name |-> req.connection_name]>>,
            d, req, default, errs, o)

FixAfterExtract(r, file, d, req, default, o) ==
    IF r.raised # "" THEN Caught(r.self, <<>>, r.raised)
    ELSE FixAfterRefs(r.ret, get_file_references(r.self, file), d, req, default, o)

generate_fix(file, d, req, default, o) ==
    FixAfterExtract(extract_errors(LogAnalyzer, file), file, d, req, default, o)

(***************************************************************************)
(* State machine: the server answers tool calls, one after the other       *)
(***************************************************************************)
LongLines == 10        \* the long log has LongLines lines after its first one

\* "src/main.go:88: nil pointer" and LongLines lines LineWorker: more than
\* ExcerptLength characters
LongDoc == join(<<LineGo>> \o [k \in 1..LongLines |-> LineWorker])

\* what the file at log_file_path may hold
ServerDocs ==
    {DocEmpty, LineOk, DocError, DocGo, DocPaths, join(<<LineError, LineGo>>),
     join(<<LineFatal, LineDotSlash>>)}

ToolCall(tool, model_name) ==
    [status |-> "pending", tool |-> tool, connection_name |-> "gitlab",
     repository_name |-> "backend", model_name |-> model_name]

Requests ==
    {ToolCall("analyze_logs", NoModelName)}
       \cup { ToolCall("generate_fix", n) : n \in {NoModelName, "gpt-4o", "Qwen Coder"} }

\* every table has its rows
FullDb ==
    [connections |-> {GitLab}, repositories |-> {Backend},
     models |-> <<Gpt4o, Llama3, QwenCoder>>]

InitServer ==
    /\ \/ disk \in ServerDocs \cup {NoFile} /\ db \in Databases
       \/ disk = LongDoc /\ db = FullDb
    /\ content = None
    /\ errors = <<>>
    /\ result = [op |-> "__init__", raised |-> "", ret |-> <<>>, before |-> <<>>,
                 reads |-> 0, scans |-> 0]
    /\ request = NoRequest
    /\ calls = <<>>
    /\ table = NoTable /\ oauth = NoOAuth /\ stdio = NoStdio

\* the server reads the next tool call; nothing is left of the one before
ReceiveRequest ==
    /\ request.status # "pending"
    /\ request' \in Requests
    /\ content' = None
    /\ errors' = <<>>
    /\ result' = [op |-> "__init__", raised |-> "", ret |-> <<>>, before |-> <<>>,
                  reads |-> 0, scans |-> 0]
    /\ calls' = <<>>
    /\ UNCHANGED <<disk, db, table, oauth, stdio>>

\* the handler of the pending tool call runs and the call is answered
Handle(tool, h) ==
    /\ request.status = "pending"
    /\ request.tool = tool
    /\ Outcome(tool, h)
    /\ calls' = h.calls
    /\ request' = [request EXCEPT !.status = "answered"]
    /\ UNCHANGED <<disk, db, table, oauth, stdio>>

AnalyzeLogs == Handle("analyze_logs", analyze_logs(disk))

\* r is the outcome of the handler's first statement, which does not depend
\* on what the collaborators do
GenerateFixAfter(r) ==
    \E o \in SUBSET Collaborators :
        \E default \in IF request.model_name = NoModelName THEN DefaultModels(db.models)
                       ELSE {NoModel} :
            Handle("generate_fix", FixAfterExtract(r, disk, db, request, default, o))

GenerateFix == GenerateFixAfter(extract_errors(LogAnalyzer, disk))

NextServer == ReceiveRequest \/ AnalyzeLogs \/ GenerateFix

SpecServer == InitServer /\ [][NextServer]_vars

(***************************************************************************)
(* AIModel.save: the is_default column of the AIModel table                *)
(***************************************************************************)
NumModels == 3         \* the table holds at most NumModels rows

\* the primary keys the table hands out
PKs == 1..NumModels

\* the processes that call save()
Savers == {"admin", "shell"}

\* the table before its first insert: no key has a row
NoRows == [k \in PKs |-> [saved |-> FALSE, is_default |-> FALSE]]

\* the rows with is_default = True
Defaults(rows) == { k \in PKs : rows[k].saved /\ rows[k].is_default }

\* the instances save() may be called on: a new one (pk None, written 0) while
\* the table has room, or one loaded from a row, is_default set either way
Instances(rows) ==
    { [pk |-> k, is_default |-> f] :
        k \in { j \in PKs : rows[j].saved } \cup (IF \E j \in PKs : ~rows[j].saved THEN {0} ELSE {}),
        f \in BOOLEAN }

\* AIModel.objects.filter(is_default=True).exclude(pk=self.pk).update(is_default=False)
ClearOtherDefaults(rows, self) ==
    [k \in PKs |-> IF k \in Defaults(rows) /\ k # self.pk
                   THEN [rows[k] EXCEPT !.is_default = FALSE]
                   ELSE rows[k]]

\* a plausible bug: the update runs whatever self.is_default is
SaveClearAlways(rows, self) == ClearOtherDefaults(rows, self)

\* if self.is_default: the update of the other rows
SaveClear(rows, self) ==
    IF self.is_default THEN ClearOtherDefaults(rows, self) ELSE rows

\* the instance after super().save(): a new one has got the next key
Written(rows, self) ==
    IF self.pk = 0
    THEN [self EXCEPT !.pk = CHOOSE k \in PKs : ~rows[k].saved /\ \A j \in 1..(k - 1) : rows[j].saved]
    ELSE self

\* super().save(): the instance's own row is inserted or updated
WriteRow(rows, self) ==
    [rows EXCEPT ![Written(rows, self).pk] = [saved |-> TRUE, is_default |-> self.is_default]]

save(rows, self) == WriteRow(SaveClear(rows, self), self)

\* a process that has not called save()
NotSaving == [pc |-> "idle", self |-> [pk |-> 0, is_default |-> FALSE], before |-> NoRows]

InitSave ==
    /\ table = [rows |-> NoRows, saving |-> [p \in Savers |-> NotSaving], last |-> "admin"]
    /\ disk = NoFile /\ content = None /\ errors = <<>>
    /\ result = [op |-> "__init__", raised |-> "", ret |-> <<>>, before |-> <<>>,
                 reads |-> 0, scans |-> 0]
    /\ db = EmptyDb /\ request = NoRequest /\ calls = <<>>
    /\ oauth = NoOAuth /\ stdio = NoStdio

NotTable == <<disk, content, errors, result, db, request, calls, oauth, stdio>>

\* process p calls save() on an instance and the call runs to its end
Save(p) ==
    /\ \E self \in Instances(table.rows) :
         table' = [rows |-> save(table.rows, self),
                   saving |-> [table.saving EXCEPT ![p] =
                                 [pc |-> "saved", self |-> Written(table.rows, self),
                                  before |-> table.rows]],
                   last |-> p]
    /\ UNCHANGED NotTable

NextSave == \E p \in Savers : Save(p)

\* save() calls one at a time
SpecSave == InitSave /\ [][NextSave]_vars

\* process p calls save(): the test of self.is_default and the update of the
\* other rows, one statement of the database
SaveStart(p) ==
    /\ table.saving[p].pc # "cleared"
    /\ \E self \in Instances(table.rows) :
         table' = [rows |-> SaveClear(table.rows, self),
                   saving |-> [table.saving EXCEPT ![p] =
                                 [pc |-> "cleared", self |-> self, before |-> table.rows]],
                   last |-> p]
    /\ UNCHANGED NotTable

\* process p goes on to super().save()
SaveFinish(p) ==
    /\ table.saving[p].pc = "cleared"
    /\ \/ table.saving[p].self.pk # 0
       \/ \E k \in PKs : ~table.rows[k].saved
    /\ table' = [rows |-> WriteRow(table.rows, table.saving[p].self),
                 saving |-> [table.saving EXCEPT ![p].pc = "saved",
                                                 ![p].self = Written(table.rows, @)],
                 last |-> p]
    /\ UNCHANGED NotTable

NextSaveRace == \E p \in Savers : SaveStart(p) \/ SaveFinish(p)

\* save() calls of two processes, the statements of one between those of the other
SpecSaveRace == InitSave /\ [][NextSaveRace]_vars

(***************************************************************************)
(* GitLabConnection tokens: GitLabService._get_client, _refresh_token and  *)
(* the view gitlab_oauth_callback                                          *)
(***************************************************************************)
MaxTime == 3           \* the clock runs from 0 to MaxTime

\* access_token / refresh_token None (or '', which `if not` treats alike)
NoToken == ""

\* self._client = None; a client is written as the oauth_token it was built with
NoClient == ""

\* token_expires_at is the empty set for None, else the set of its one time
Expired(connection, now) == \E t \in connection.token_expires_at : t <= now

\* what the token endpoint does with a request: it fails to answer, answers
\* with an error status, or answers 200 with a body (a key the body lacks is NoToken)
Answers ==
    { [status |-> "raises", access_token |-> NoToken, has_refresh |-> FALSE,
       refresh_token |-> NoToken, expires_in |-> 1],
      [status |-> "401", access_token |-> NoToken, has_refresh |-> FALSE,
       refresh_token |-> NoToken, expires_in |-> 1],
      [status |-> "200", access_token |-> NoToken, has_refresh |-> FALSE,
       refresh_token |-> NoToken, expires_in |-> 1] }
    \cup { [status |-> "200", access_token |-> a, has_refresh |-> r # NoToken,
            refresh_token |-> r, expires_in |-> e] :
             a \in {"glpat-1", "glpat-2"}, r \in {NoToken, "glrt-1"}, e \in {1, 2} }

\* what _refresh_token leaves: the connection object, whether it was saved,
\* and the requests sent to the token endpoint
Refreshed(connection, saved, posts) ==
    [connection |-> connection, saved |-> saved, posts |-> posts]

\* _refresh_token that keeps the tokens the endpoint has refused
_refresh_tokenKeepsRefused(connection, now, answer) ==
    IF connection.refresh_token = NoToken THEN Refreshed(connection, FALSE, 0)
    ELSE IF answer.status = "200"
    THEN Refreshed([connection EXCEPT
                      !.access_token = answer.access_token,
                      !.refresh_token = IF answer.has_refresh THEN answer.refresh_token ELSE @,
                      !.token_expires_at = {now + answer.expires_in}], TRUE, 1)
    ELSE Refreshed(connection, FALSE, 1)

_refresh_token(connection, now, answer) ==
    IF connection.refresh_token = NoToken THEN Refreshed(connection, FALSE, 0)
    ELSE IF answer.status = "raises" THEN Refreshed(connection, FALSE, 1)
    ELSE IF answer.status = "200"
    THEN Refreshed([connection EXCEPT
                      !.access_token = answer.access_token,
                      !.refresh_token = IF answer.has_refresh THEN answer.refresh_token ELSE @,
                      !.token_expires_at = {now + answer.expires_in}], TRUE, 1)
    ELSE Refreshed([connection EXCEPT !.access_token = NoToken, !.refresh_token = NoToken],
                   TRUE, 1)

\* GitLabService(connection)
GitLabService(connection) == [connection |-> connection, _client |-> NoClient]

\* _get_client once the token has been looked at: r is what _refresh_token
\* left, or the connection as it was
ClientAfterRefresh(self, r) ==
    IF r.connection.access_token = NoToken
    THEN [self |-> [self EXCEPT !.connection = r.connection], raised |-> "ValueError",
          saved |-> r.saved, posts |-> r.posts]
    ELSE [self |-> [connection |-> r.connection, _client |-> r.connection.access_token],
          raised |-> "", saved |-> r.saved, posts |-> r.posts]

_get_client(self, now, answer) ==
    IF self._client # NoClient
    THEN [self |-> self, raised |-> "", saved |-> FALSE, posts |-> 0]
    ELSE ClientAfterRefresh(self,
             IF Expired(self.connection, now)
             THEN _refresh_token(self.connection, now, answer)
             ELSE Refreshed(self.connection, FALSE, 0))

\* what the view leaves: the row, the branch it returned from, the requests
\* sent to the token endpoint
Redirect(row, path, posts) == [row |-> row, path |-> path, posts |-> posts]

\* the view from the token request on: stored is the row with the answer's
\* tokens, sync what _get_client leaves when list_repositories() asks for the
\* client of GitLabService(connection)
ExchangeCode(row, stored, answer, sync) ==
    IF answer.status = "raises" THEN Redirect(row, "OAuth error: exception", 1)
    ELSE IF answer.status # "200" THEN Redirect(row, "OAuth token exchange failed", 1)
    ELSE Redirect(IF sync.saved THEN sync.self.connection ELSE stored,
                  "Successfully connected", 1 + sync.posts)

\* connection.access_token = ..., connection.refresh_token = ..., token_expires_at
StoreTokens(row, now, answer) ==
    [row EXCEPT !.access_token = answer.access_token,
                !.refresh_token = answer.refresh_token,
                !.token_expires_at = {now + answer.expires_in}]

\* the view that sends the token request before it looks at client_secret
gitlab_oauth_callbackSecretLate(row, known, error, code, now, answer, sync_answer) ==
    IF ~(known /\ row.is_active) THEN Redirect(row, "GitLab connection not found", 0)
    ELSE IF error # "" THEN Redirect(row, "OAuth error", 0)
    ELSE IF code = "" THEN Redirect(row, "No authorization code received", 0)
    ELSE IF row.client_secret = "" THEN Redirect(row, "Client Secret is empty", 1)
    ELSE ExchangeCode(row, StoreTokens(row, now, answer), answer,
                      _get_client(GitLabService(StoreTokens(row, now, answer)), now, sync_answer))

gitlab_oauth_callback(row, known, error, code, now, answer, sync_answer) ==
    IF ~(known /\ row.is_active) THEN Redirect(row, "GitLab connection not found", 0)
    ELSE IF error # "" THEN Redirect(row, "OAuth error", 0)
    ELSE IF code = "" THEN Redirect(row, "No authorization code received", 0)
    ELSE IF row.client_secret = "" THEN Redirect(row, "Client Secret is empty", 0)
    ELSE ExchangeCode(row, StoreTokens(row, now, answer), answer,
                      _get_client(GitLabService(StoreTokens(row, now, answer)), now, sync_answer))

(***************************************************************************)
(* State machine: one connection, the services built on it one after the   *)
(* other, the OAuth callback, and the clock                                *)
(***************************************************************************)
\* the row as the admin creates it: no tokens yet
NewConnection(client_secret) ==
    [access_token |-> NoToken, refresh_token |-> NoToken, token_expires_at |-> {},
     is_active |-> TRUE, client_secret |-> client_secret]

\* what a call leaves in oauth.last
LastCall(op, raised, path, posts, answer) ==
    [op |-> op, raised |-> raised, path |-> path, posts |-> posts,
     status |-> IF posts > 0 THEN answer.status ELSE "none",
     before |-> oauth.row, refused_before |-> oauth.refused]

NotOAuth == <<disk, content, errors, result, db, request, calls, table, stdio>>

InitOAuth ==
    /\ \E secret \in {"", "s3cret"} :
         oauth = [row |-> NewConnection(secret),
                  service |-> GitLabService(NewConnection(secret)),
                  now |-> 0,
                  refused |-> FALSE,
                  last |-> [op |-> "__init__", raised |-> "", path |-> "", posts |-> 0,
                            status |-> "none", before |-> NewConnection(secret),
                            refused_before |-> FALSE]]
    /\ disk = NoFile /\ content = None /\ errors = <<>>
    /\ result = [op |-> "__init__", raised |-> "", ret |-> <<>>, before |-> <<>>,
                 reads |-> 0, scans |-> 0]
    /\ db = EmptyDb /\ request = NoRequest /\ calls = <<>>
    /\ table = NoTable /\ stdio = NoStdio

\* timezone.now() moves on
Tick ==
    /\ oauth.now < MaxTime
    /\ oauth' = [oauth EXCEPT !.now = @ + 1]
    /\ UNCHANGED NotOAuth

\* a handler loads the connection and builds its service on it
NewService ==
    /\ oauth.row.is_active
    /\ oauth' = [oauth EXCEPT !.service = GitLabService(oauth.row),
                              !.last = LastCall("GitLabService", "", "", 0, {})]
    /\ UNCHANGED NotOAuth

\* the admin clears is_active on the connection's change page
Deactivate ==
    /\ oauth.row.is_active
    /\ oauth' = [oauth EXCEPT !.row.is_active = FALSE,
                              !.last = LastCall("admin", "", "", 0, {})]
    /\ UNCHANGED NotOAuth

GetClientWith(r, answer) ==
    /\ oauth' = [oauth EXCEPT
                   !.service = r.self,
                   !.row = IF r.saved THEN r.self.connection ELSE @,
                   !.refused = @ \/ (r.posts > 0 /\ answer.status \notin {"200", "raises"}),
                   !.last = LastCall("_get_client", r.raised, "", r.posts, answer)]
    /\ UNCHANGED NotOAuth

\* a method of the service asks for the client
GetClient ==
    \E answer \in Answers : GetClientWith(_get_client(oauth.service, oauth.now, answer), answer)

OAuthCallbackWith(r, answer) ==
    /\ oauth' = [oauth EXCEPT
                   !.row = r.row,
                   !.refused = @ /\ r.path # "Successfully connected",
                   !.last = LastCall("gitlab_oauth_callback", "", r.path, r.posts, answer)]
    /\ UNCHANGED NotOAuth

\* GitLab redirects the browser to the callback URL
OAuthCallback ==
    \E known \in BOOLEAN, error \in {"", "access_denied"}, code \in {"", "c0de"} :
        \E answer \in Answers :
          \* the repository sync sends a refresh request of its own only if the
          \* token just stored has expired already
          \E sync_answer \in IF Expired(StoreTokens(oauth.row, oauth.now, answer), oauth.now)
                              THEN Answers ELSE {answer} :
            OAuthCallbackWith(gitlab_oauth_callback(oauth.row, known, error, code, oauth.now,
                                                    answer, sync_answer), answer)

NextOAuth == Tick \/ NewService \/ Deactivate \/ GetClient \/ OAuthCallback

SpecOAuth == InitOAuth /\ [][NextOAuth]_vars

(***************************************************************************)
(* MCPServer.run: the lines of stdin and the responses on stdout           *)
(***************************************************************************)
MaxInput == 2          \* stdin holds at most MaxInput lines before its end

\* request.get('id') of a request without id: None, printed as null
NoId == "null"

\* a line of stdin by what readline, strip and json.loads make of it: its
\* bytes decode or do not, and the text is blank, is no JSON, is a JSON array
\* or is a JSON object with these members
Line(bytes, json, method, id, params, name) ==
    [bytes |-> bytes, json |-> json, method |-> method, id |-> id, params |-> params,
     name |-> name]

JsonRequest(method, id, params, name) == Line("text", "object", method, id, params, name)

StdinLines ==
    { Line("text", "blank", "", NoId, "", ""),
      Line("text", "malformed", "", NoId, "", ""),
      Line("undecodable", "malformed", "", NoId, "", ""),
      Line("text", "array", "", NoId, "", ""),
      JsonRequest("initialize", "1", "object", ""),
      JsonRequest("initialize", NoId, "object", ""),
      JsonRequest("tools/list", "2", "object", ""),
      JsonRequest("tools/call", "1", "object", "analyze_logs"),
      JsonRequest("tools/call", "2", "object", "no_such_tool"),
      JsonRequest("tools/call", "1", "array", ""),
      JsonRequest("resources/list", "2", "object", "") }

\* self.tools
Tools ==
    {"list_gitlab_connections", "list_repositories", "list_ai_models", "analyze_logs",
     "fetch_gitlab_file", "generate_fix", "send_notification"}

create_success_response(request_id) == [id |-> request_id, type |-> "result", code |-> 0]

create_error_response(request_id, code) == [id |-> request_id, type |-> "error", code |-> code]

\* handle_request: the response, or the exception that leaves it; tool_raises
\* tells whether the tool called raises
handle_request(req, tool_raises) ==
    IF req.json # "object" THEN [raised |-> "AttributeError", response |-> <<>>]
    ELSE IF req.method = "initialize"
    THEN [raised |-> "", response |-> create_success_response(req.id)]
    ELSE IF req.method = "tools/list"
    THEN [raised |-> "", response |-> create_success_response(req.id)]
    ELSE IF req.method = "tools/call"
    THEN IF req.params # "object" THEN [raised |-> "AttributeError", response |-> <<>>]
         ELSE IF req.name \in Tools
         THEN IF tool_raises
              THEN [raised |-> "", response |-> create_error_response(req.id, -32603)]
              ELSE [raised |-> "", response |-> create_success_response(req.id)]
         ELSE [raised |-> "", response |-> create_error_response(req.id, -32601)]
    ELSE [raised |-> "", response |-> create_error_response(req.id, -32601)]

\* the body of `while True` for a line that is not the end of the file: what
\* it prints, and whether an exception leaves the loop. With errors='strict'
\* on sys.stdin readline raises UnicodeDecodeError for bytes that do not
\* decode; with errors='surrogateescape' it returns them as text
Iteration(line, strict, h) ==
    IF line.bytes = "undecodable" /\ strict THEN [printed |-> <<>>, left |-> "Fatal error"]
    ELSE IF line.json = "blank" THEN [printed |-> <<>>, left |-> ""]
    ELSE IF line.json = "malformed"
    THEN [printed |-> <<create_error_response(NoId, -32700)>>, left |-> ""]
    ELSE IF h.raised # ""
    THEN [printed |-> <<create_error_response(NoId, -32603)>>, left |-> ""]
    ELSE [printed |-> <<h.response>>, left |-> ""]

RECURSIVE Inputs(_)
\* the contents of stdin of n lines
Inputs(n) ==
    IF n = 0 THEN {<<>>}
    ELSE { Append(s, l) : s \in Inputs(n - 1), l \in StdinLines }

NotStdio == <<disk, content, errors, result, db, request, calls, table, oauth>>

InitRun ==
    /\ \E n \in 0..MaxInput : \E lines \in Inputs(n) : \E strict \in BOOLEAN :
         stdio = [stdin |-> lines, strict |-> strict, read |-> 0, stdout |-> <<>>,
                  loop |-> "running"]
    /\ disk = NoFile /\ content = None /\ errors = <<>>
    /\ result = [op |-> "__init__", raised |-> "", ret |-> <<>>, before |-> <<>>,
                 reads |-> 0, scans |-> 0]
    /\ db = EmptyDb /\ request = NoRequest /\ calls = <<>>
    /\ table = NoTable /\ oauth = NoOAuth

IterationDone(r) ==
    /\ stdio' = [stdio EXCEPT !.read = @ + 1,
                              !.stdout = @ \o r.printed,
                              !.loop = IF r.left = "" THEN "running" ELSE r.left]
    /\ UNCHANGED NotStdio

\* one turn of the loop: a line is read, handled and answered
ReadLine ==
    /\ stdio.loop = "running"
    /\ stdio.read < Len(stdio.stdin)
    /\ \E tool_raises \in BOOLEAN :
         IterationDone(Iteration(stdio.stdin[stdio.read + 1], stdio.strict,
                                 handle_request(stdio.stdin[stdio.read + 1], tool_raises)))

\* readline returns '' at the end of the file: break
EndOfFile ==
    /\ stdio.loop = "running"
    /\ stdio.read = Len(stdio.stdin)
    /\ stdio' = [stdio EXCEPT !.loop = "end of file"]
    /\ UNCHANGED NotStdio

\* except KeyboardInterrupt
Interrupt ==
    /\ stdio.loop = "running"
    /\ stdio' = [stdio EXCEPT !.loop = "Server shutting down"]
    /\ UNCHANGED NotStdio

NextRun == ReadLine \/ EndOfFile \/ Interrupt

SpecRun == InitRun /\ [][NextRun]_vars

(***************************************************************************)
(* Properties of extract_errors                                            *)
(***************************************************************************)
\* extract_errors has just returned its list, result.ret
AfterExtract == result.op = "extract_errors" /\ result.raised = ""

\* the lines of the text the last call worked on
Lines == split(content)

IsKeywordOcc(e) == e.pattern = 0
IsStructuredOcc(e) == e.pattern > 0
HasFilePath(e) == "file_path" \in DOMAIN e
HasLineNumber(e) == "line_number" \in DOMAIN e

\* the regular expression that made the occurrence, <<>> for the keyword pass
MadeBy(e) ==
    IF e.pattern \in 1..Len(ERROR_PATTERNS) THEN ERROR_PATTERNS[e.pattern].re ELSE <<>>

\* some structured pattern matches the line
StructuredMatch(line) ==
    \E p \in 1..Len(ERROR_PATTERNS) : Len(finditer(ERROR_PATTERNS[p].re, line)) > 0

\* C1 (as stated): the returned list is in ascending line_in_log order over the
\* whole list, keyword occurrences included, and occurrences of one line are in
\* the order of their patterns in ERROR_PATTERNS.
C1_WholeListAscending ==
    AfterExtract =>
        \A j, k \in 1..Len(result.ret) :
            j < k =>
                /\ result.ret[j].line_in_log <= result.ret[k].line_in_log
                /\ result.ret[j].line_in_log = result.ret[k].line_in_log
                      => result.ret[j].pattern <= result.ret[k].pattern

\* C1 (amended): the returned list is all structured occurrences in ascending
\* line_in_log order, those of one line in the order of their patterns in
\* ERROR_PATTERNS, followed by all keyword occurrences in ascending line_in_log
\* order.
C1_StructuredThenKeywordAscending ==
    AfterExtract =>
        \A j, k \in 1..Len(result.ret) :
            j < k =>
                /\ ~(IsKeywordOcc(result.ret[j]) /\ IsStructuredOcc(result.ret[k]))
                /\ IsStructuredOcc(result.ret[j]) /\ IsStructuredOcc(result.ret[k])
                      => /\ result.ret[j].line_in_log <= result.ret[k].line_in_log
                         /\ result.ret[j].line_in_log = result.ret[k].line_in_log
                               => result.ret[j].pattern <= result.ret[k].pattern
                /\ IsKeywordOcc(result.ret[j]) /\ IsKeywordOcc(result.ret[k])
                      => result.ret[j].line_in_log < result.ret[k].line_in_log

\* a keyword occurrence of an earlier line follows structured occurrences of
\* one line that come from two different patterns
C1_Witness ==
    /\ AfterExtract
    /\ \E j, k, m \in 1..Len(result.ret) :
          /\ j < k /\ k < m
          /\ IsStructuredOcc(result.ret[j]) /\ IsStructuredOcc(result.ret[k])
          /\ result.ret[j].line_in_log = result.ret[k].line_in_log
          /\ result.ret[j].pattern < result.ret[k].pattern
          /\ IsKeywordOcc(result.ret[m])
          /\ result.ret[m].line_in_log < result.ret[j].line_in_log

\* C2: a line on which a structured pattern matched gets no keyword occurrence,
\* even when it contains a keyword; a line is represented by structured
\* occurrences only or by exactly one keyword occurrence.
C2_KeywordOnlyOnUnclaimedLines ==
    AfterExtract =>
        /\ \A k \in 1..Len(result.ret) :
              IsKeywordOcc(result.ret[k]) =>
                 /\ ~StructuredMatch(Lines[result.ret[k].line_in_log])
                 /\ \A j \in 1..Len(result.ret) :
                       j # k => result.ret[j].line_in_log # result.ret[k].line_in_log
        /\ \A n \in 1..Len(Lines) :
              StructuredMatch(Lines[n]) =>
                 \A k \in 1..Len(result.ret) :
                    result.ret[k].line_in_log = n => IsStructuredOcc(result.ret[k])

\* a line with a keyword in it is represented by a structured occurrence
C2_Witness ==
    /\ AfterExtract
    /\ \E k \in 1..Len(result.ret) :
          /\ IsStructuredOcc(result.ret[k])
          /\ HasKeyword(result.ret[k].raw_line)

PathAppViews == <<"a","p","p","/","v","i","e","w","s",".","p","y">>
PathSrcMainGo == <<"s","r","c","/","m","a","i","n",".","g","o">>

\* C3 (as stated): for "INFO: server started\nERROR: connection refused\n" the
\* list has exactly one occurrence, at line 2, made by the keyword pass, without
\* file_path and line_number.
C3_KeywordOccurrence ==
    AfterExtract /\ content = DocError =>
        /\ Len(result.ret) = 1
        /\ result.ret[1].line_in_log = 2
        /\ IsKeywordOcc(result.ret[1])
        /\ ~HasFilePath(result.ret[1]) /\ ~HasLineNumber(result.ret[1])

\* C3 (amended): for that text the list has exactly one occurrence, at line 2,
\* without file_path and line_number; it is made by the structured pattern
\* r'Error: (.+)' (type 'javascript'), which matches "ERROR: " without regard
\* to case, and not by the keyword pass.
C3_JsErrorOccurrence ==
    AfterExtract /\ content = DocError =>
        /\ Len(result.ret) = 1
        /\ result.ret[1].line_in_log = 2
        /\ result.ret[1].raw_line = LineError
        /\ MadeBy(result.ret[1]) = PatJsError
        /\ result.ret[1].type = "javascript"
        /\ ~HasFilePath(result.ret[1]) /\ ~HasLineNumber(result.ret[1])

C3_Witness == AfterExtract /\ content = DocError /\ Len(result.ret) > 0

\* C4 (as stated): for 'File "app/views.py", line 42\n    raise ValueError("bad")\n'
\* the list has exactly one occurrence: python, file_path "app/views.py",
\* line_number 42, line_in_log 1; none for the second line.
C4_OneOccurrence ==
    AfterExtract /\ content = DocPython =>
        /\ Len(result.ret) = 1
        /\ MadeBy(result.ret[1]) = PatPythonFile
        /\ result.ret[1].type = "python"
        /\ result.ret[1].file_path = PathAppViews
        /\ result.ret[1].line_number = 42
        /\ result.ret[1].line_in_log = 1
        /\ \A k \in 1..Len(result.ret) : result.ret[k].line_in_log # 2

\* C4 (amended): for that text the list has exactly two occurrences: first the
\* python 'File "<path>", line <n>' one with file_path "app/views.py",
\* line_number 42 and line_in_log 1, then a keyword occurrence (type 'generic',
\* no file_path, no line_number) for the second line, whose "ValueError" contains
\* the keyword ERROR.
C4_PythonThenKeyword ==
    AfterExtract /\ content = DocPython =>
        /\ Len(result.ret) = 2
        /\ MadeBy(result.ret[1]) = PatPythonFile
        /\ result.ret[1].type = "python"
        /\ result.ret[1].file_path = PathAppViews
        /\ result.ret[1].line_number = 42
        /\ result.ret[1].line_in_log = 1
        /\ IsKeywordOcc(result.ret[2])
        /\ result.ret[2].type = "generic"
        /\ result.ret[2].line_in_log = 2
        /\ result.ret[2].raw_line = LineRaise
        /\ ~HasFilePath(result.ret[2]) /\ ~HasLineNumber(result.ret[2])

C4_Witness == AfterExtract /\ content = DocPython /\ Len(result.ret) > 1

\* C5 (as stated): for "src/main.go:88: nil pointer\n" the list has exactly one
\* occurrence, made by the slash-path pattern, with file_path "src/main.go" and
\* line_number 88.
C5_OneSlashOccurrence ==
    AfterExtract /\ content = DocGo =>
        /\ Len(result.ret) = 1
        /\ MadeBy(result.ret[1]) = PatSlash
        /\ result.ret[1].file_path = PathSrcMainGo
        /\ result.ret[1].line_number = 88

\* C5 (amended): for that text the list has exactly two occurrences, both of
\* type 'generic' at line 1 with file_path "src/main.go" and line_number 88:
\* the first made by the path.ext:line: pattern, the second by the slash-path
\* pattern.
C5_ExtColonAndSlash ==
    AfterExtract /\ content = DocGo =>
        /\ Len(result.ret) = 2
        /\ MadeBy(result.ret[1]) = PatExtColon
        /\ MadeBy(result.ret[2]) = PatSlash
        /\ \A k \in 1..2 :
              /\ result.ret[k].type = "generic"
              /\ result.ret[k].line_in_log = 1
              /\ result.ret[k].file_path = PathSrcMainGo
              /\ result.ret[k].line_number = 88

C5_Witness == AfterExtract /\ content = DocGo /\ Len(result.ret) > 1

\* the 1-based lines from..to of the text, clamped to the text
LinesClamped(from, to) == SubSeq(Lines, Max(1, from), Min(Len(Lines), to))

\* C6 (as stated): the context of an occurrence at line n holds line n, every
\* existing line from n-5 to n-1 and every existing line from n+1 to n+5.
C6_FiveBeforeFiveAfter ==
    AfterExtract =>
        \A k \in 1..Len(result.ret) :
            split(result.ret[k].context)
               = LinesClamped(result.ret[k].line_in_log - 5, result.ret[k].line_in_log + 5)

\* C6 (amended): the context of an occurrence at line n (structured or keyword)
\* holds line n, every existing line from n-5 to n-1 and every existing line
\* from n+1 to n+4: up to 5 lines before and up to 4 lines after, clamped only
\* by the bounds of the text.
C6_FiveBeforeFourAfter ==
    AfterExtract =>
        \A k \in 1..Len(result.ret) :
            split(result.ret[k].context)
               = LinesClamped(result.ret[k].line_in_log - 5, result.ret[k].line_in_log + 4)

\* a keyword occurrence with five lines before it and five lines after it in
\* the text
C6_Witness ==
    /\ AfterExtract
    /\ \E k \in 1..Len(result.ret) :
          /\ IsKeywordOcc(result.ret[k])
          /\ result.ret[k].line_in_log - 5 >= 1
          /\ result.ret[k].line_in_log + 5 <= Len(Lines)

\* the number of lines of a context
ContextLines(e) == Len(split(e.context))

\* C7 (as stated): a context has min(10, N) lines for an occurrence on an
\* interior line and min(6, N) lines for one on the first or the last line of
\* a text of N lines.
C7_TenOrSixLines ==
    AfterExtract =>
        \A k \in 1..Len(result.ret) :
            ContextLines(result.ret[k])
               = IF result.ret[k].line_in_log \in {1, Len(Lines)}
                 THEN Min(6, Len(Lines))
                 ELSE Min(10, Len(Lines))

\* C7 (amended): a context of an occurrence at line n of a text of N lines has
\* min(N, n+4) - max(0, n-6) lines: 10 when at least 5 lines precede and at
\* least 4 follow, min(5, N) on the first line and min(6, N) on the last line.
C7_WindowLength ==
    AfterExtract =>
        \A k \in 1..Len(result.ret) :
            LET n == result.ret[k].line_in_log
                N == Len(Lines)
            IN  /\ ContextLines(result.ret[k]) = Min(N, n + 4) - Max(0, n - 6)
                /\ n >= 6 /\ n + 4 <= N => ContextLines(result.ret[k]) = 10
                /\ n = 1 => ContextLines(result.ret[k]) = Min(5, N)
                /\ n = N => ContextLines(result.ret[k]) = Min(6, N)

\* an occurrence with a context of 10 lines
C7_Witness ==
    /\ AfterExtract
    /\ \E k \in 1..Len(result.ret) :
          /\ ContextLines(result.ret[k]) = 10
          /\ result.ret[k].line_in_log > 1
          /\ result.ret[k].line_in_log < Len(Lines)

\* C8: an occurrence has file_path if and only if it has line_number, and a
\* keyword occurrence has neither.
C8_FilePathIffLineNumber ==
    AfterExtract =>
        \A k \in 1..Len(result.ret) :
            /\ HasFilePath(result.ret[k]) <=> HasLineNumber(result.ret[k])
            /\ IsKeywordOcc(result.ret[k]) => ~HasFilePath(result.ret[k])
            /\ IsKeywordOcc(result.ret[k]) => ~HasLineNumber(result.ret[k])

\* a list with an occurrence that has both keys and a keyword occurrence
C8_Witness ==
    /\ AfterExtract
    /\ \E j, k \in 1..Len(result.ret) :
          /\ HasFilePath(result.ret[j]) /\ HasLineNumber(result.ret[j])
          /\ IsKeywordOcc(result.ret[k])

(***************************************************************************)
(* Properties of get_file_references and get_summary                       *)
(***************************************************************************)
AfterFileReferences == result.op = "get_file_references" /\ result.raised = ""
AfterSummary == result.op = "get_summary" /\ result.raised = ""

AllSpace(s) == \A k \in 1..Len(s) : IsSpace(s[k])

\* t is s without its leading and trailing whitespace, and otherwise s
IsTrimOf(t, s) ==
    /\ Len(t) > 0 => ~IsSpace(t[1]) /\ ~IsSpace(t[Len(t)])
    /\ \E a \in 0..Len(s) :
          /\ a + Len(t) <= Len(s)
          /\ t = SubSeq(s, a + 1, a + Len(t))
          /\ AllSpace(SubSeq(s, 1, a))
          /\ AllSpace(SubSeq(s, a + Len(t) + 1, Len(s)))

\* reference ref is the (trimmed file_path, line_number) of occurrence e
IsRefOf(ref, e) ==
    /\ HasFilePath(e)
    /\ HasLineNumber(e)
    /\ IsTrimOf(ref[1], e.file_path)
    /\ ref[2] = e.line_number

\* the first occurrence of self.errors that reference ref comes from
FirstOcc(ref) ==
    CHOOSE k \in 1..Len(errors) :
        /\ IsRefOf(ref, errors[k])
        /\ \A j \in 1..(k - 1) : ~IsRefOf(ref, errors[j])

\* C9: get_file_references returns exactly the distinct (trimmed file_path,
\* line_number) pairs of the occurrences that have a file_path, no pair twice,
\* in the order each is first seen in the list; paths are trimmed only.
C9_DistinctTrimmedRefsInOrder ==
    AfterFileReferences =>
        /\ \A k \in 1..Len(result.ret) :
              \E j \in 1..Len(errors) : IsRefOf(result.ret[k], errors[j])
        /\ \A j \in 1..Len(errors) :
              HasFilePath(errors[j]) =>
                 \E k \in 1..Len(result.ret) : IsRefOf(result.ret[k], errors[j])
        /\ \A j, k \in 1..Len(result.ret) : j # k => result.ret[j] # result.ret[k]
        /\ \A j, k \in 1..Len(result.ret) :
              j < k => FirstOcc(result.ret[j]) < FirstOcc(result.ret[k])

\* two occurrences whose paths differ in whitespace only give one reference,
\* and "./a.py" and "a.py" give two
C9_Witness ==
    /\ AfterFileReferences
    /\ \E j, k \in 1..Len(errors) :
          /\ j < k
          /\ HasFilePath(errors[j]) /\ HasFilePath(errors[k])
          /\ errors[j].file_path # errors[k].file_path
          /\ strip(errors[j].file_path) = strip(errors[k].file_path)
    /\ \E j, k \in 1..Len(result.ret) :
          /\ result.ret[j][1] = <<".", "/", "a", ".", "p", "y">>
          /\ result.ret[k][1] = <<"a", ".", "p", "y">>

\* summary s counts the list errs and the references refs
SummaryIs(s, errs, refs) ==
    /\ s.total_errors = Len(errs)
    /\ s.error_types = {errs[k].type : k \in 1..Len(errs)}
    /\ s.file_references = Len(refs)

\* C10: in every state reached by calls of extract_errors, get_file_references
\* and get_summary on an unchanged log, get_summary returns total_errors = the
\* length of the list extract_errors returns, error_types = the set of the
\* types in that list, and file_references = the length of get_file_references.
C10_SummaryAgreesWithLists ==
    AfterSummary => SummaryIs(result.ret, extract_errors(Self, disk).ret,
                              get_file_references(Self, disk).ret)

\* a summary of a log with two types, several occurrences and fewer references
C10_Witness ==
    /\ AfterSummary
    /\ Cardinality(result.ret.error_types) > 1
    /\ result.ret.file_references > 0
    /\ result.ret.file_references < result.ret.total_errors

(***************************************************************************)
(* Repeated calls on one analyzer                                          *)
(***************************************************************************)
\* C11: extract_errors is idempotent: every call that returns, whatever was
\* called on the analyzer before, returns the list the first call on a new
\* analyzer returns for the same log content, and self.errors is that list:
\* a later call does not accumulate occurrences.
C11_ExtractIdempotent ==
    AfterExtract =>
        /\ result.ret = extract_errors(LogAnalyzer, disk).ret
        /\ errors = result.ret

\* extract_errors has returned a list of several occurrences on an analyzer
\* that held the list of an earlier call and did not read the file again
C11_Witness ==
    AfterExtract /\ result.before # <<>> /\ result.reads = 0 /\ Len(result.ret) > 1

\* C13 (as stated): the content is immutable once read: a call of
\* extract_errors, get_file_references or get_summary on an analyzer that has
\* read its file (content is set) does not read the file again and leaves the
\* content and the occurrence list as they are, whatever the file on disk has
\* become in between.
C13_ContentImmutableOnceRead ==
    [][(content # None /\ disk' = disk)
          => /\ result'.reads = 0
             /\ content' = content
             /\ (result.op = "extract_errors" /\ result.raised = "") => errors' = errors]_vars

\* C14: with no file at file_path, every call of read_log, extract_errors,
\* get_file_references and get_summary raises FileNotFoundError and returns
\* nothing, and the analyzer is as __init__ left it: content unset, the
\* occurrence list empty.
C14_NotFoundLeavesAnalyzerUnchanged ==
    disk = NoFile =>
        /\ content = None
        /\ errors = <<>>
        /\ result.op # "__init__" =>
              /\ result.raised = "FileNotFoundError"
              /\ result.ret = <<>>
              /\ result.reads = 0
              /\ result.scans = 0

\* get_summary has failed on a missing file
C14_Witness ==
    /\ disk = NoFile
    /\ result.op = "get_summary"
    /\ result.raised = "FileNotFoundError"
    /\ content = None

\* C15: for an empty log file extract_errors returns no occurrence,
\* get_file_references no reference, and get_summary total_errors = 0 and
\* file_references = 0; no call fails.
C15_EmptyLog ==
    disk = DocEmpty =>
        /\ result.raised = ""
        /\ errors = <<>>
        /\ AfterExtract => result.ret = <<>>
        /\ AfterFileReferences => result.ret = <<>>
        /\ AfterSummary =>
              /\ result.ret.total_errors = 0
              /\ result.ret.file_references = 0
              /\ result.ret.error_types = {}

\* get_summary has returned for an empty file that was read
C15_Witness == disk = DocEmpty /\ AfterSummary /\ content = <<>> /\ result.reads > 0

\* the number of matches of patterns p..9 of ERROR_PATTERNS on the line
RECURSIVE MatchCount(_, _)
MatchCount(line, p) ==
    IF p > Len(ERROR_PATTERNS) THEN 0
    ELSE Len(Matches(p, line)) + MatchCount(line, p + 1)

\* the places in the list of the structured occurrences of line n
StructuredAt(list, n) ==
    { k \in 1..Len(list) : IsStructuredOcc(list[k]) /\ list[k].line_in_log = n }

\* C16: ERROR_PATTERNS has nine patterns, and for every line of the log the
\* number of structured occurrences in the list is the number of matches of
\* all of them on that line: every match of every pattern gives one
\* occurrence, also when two patterns match the same text.
C16_OneOccurrencePerMatch ==
    /\ Len(ERROR_PATTERNS) = 9
    /\ AfterExtract =>
          \A n \in 1..Len(Lines) :
              Cardinality(StructuredAt(result.ret, n)) = MatchCount(Lines[n], 1)

\* two patterns have matched the same path and line number of one line
C16_Witness ==
    /\ AfterExtract
    /\ \E j, k \in 1..Len(result.ret) :
          /\ j < k
          /\ result.ret[j].line_in_log = result.ret[k].line_in_log
          /\ result.ret[j].pattern # result.ret[k].pattern
          /\ HasFilePath(result.ret[j]) /\ HasFilePath(result.ret[k])
          /\ result.ret[j].file_path = result.ret[k].file_path
          /\ result.ret[j].line_number = result.ret[k].line_number

(***************************************************************************)
(* Properties of the handlers analyze_logs and generate_fix                *)
(***************************************************************************)
AfterAnalyzeLogs == result.op = "analyze_logs"
AfterGenerateFix == result.op = "generate_fix"

\* the places in calls of the calls of one collaborator
CallsOf(name) == { k \in 1..Len(calls) : calls[k].call = name }

\* C12 (as stated): the log is scanned exactly once during one analyze_logs
\* call that returns the analysis, whatever the log contains: after
\* extract_errors has run, get_summary and get_file_references reuse its list.
C12_ScannedOnceByAnalyzeLogs ==
    (AfterAnalyzeLogs /\ "summary" \in DOMAIN result.ret) => result.scans = 1

\* the repository the tool call names has force_ollama set
PrivacyModeRepository ==
    \E r \in db.repositories :
        /\ r.gitlab_connection = request.connection_name
        /\ r.local_name = request.repository_name
        /\ r.force_ollama

\* C17: privacy mode.  When the repository of a generate_fix call has
\* force_ollama set, every model handed to AIService is an active row of
\* provider type 'ollama', whatever model_name is given; without AIService no
\* completion is asked for; and when the handler comes to choose a model and
\* hands none over, it returns the privacy-mode error.
C17_PrivacyModeOnlyOllama ==
    (AfterGenerateFix /\ PrivacyModeRepository) =>
        /\ \A k \in CallsOf("AIService") :
              /\ calls[k].model.provider_type = "ollama"
              /\ calls[k].model.is_active
              /\ \E j \in 1..Len(db.models) : db.models[j] = calls[k].model
        /\ "model_used" \in DOMAIN result.ret =>
              \E k \in CallsOf("AIService") :
                  calls[k].model.display_name = result.ret.model_used
        /\ CallsOf("AIService") = {} =>
              /\ CallsOf("generate_fix_suggestion") = {}
              /\ (CallsOf("Repository.objects.get") # {}
                    /\ result.ret # [error |-> "Repository.DoesNotExist"])
                    => result.ret = [error |-> PrivacyModeError]

\* model_name names an active model that is not an Ollama model, and the call
\* has returned the privacy-mode error without a call of AIService
C17_Witness ==
    /\ AfterGenerateFix
    /\ PrivacyModeRepository
    /\ \E j \in 1..Len(db.models) :
          /\ NamedBy(db.models[j], request.model_name)
          /\ db.models[j].is_active
          /\ db.models[j].provider_type # "ollama"
    /\ result.ret = [error |-> PrivacyModeError]
    /\ CallsOf("AIService") = {}

\* the collaborators of generate_fix in the order of the claim
Order(name) ==
    CASE name = "get_file_lines" -> 1
      [] name = "generate_fix_suggestion" -> 2
      [] name = "trigger_notifications" -> 3
      [] OTHER -> 0

C19_FetchForFirstFileReference ==
    (AfterGenerateFix /\ CallsOf("generate_fix_suggestion") # {}
        /\ \E j \in 1..Len(errors) : HasFilePath(errors[j]) /\ HasLineNumber(errors[j]))
    => \E k \in CallsOf("get_file_lines") :
          \E j \in 1..Len(errors) :
              /\ HasFilePath(errors[j]) /\ HasLineNumber(errors[j])
              /\ calls[k].file_path = errors[j].file_path
              /\ calls[k].start_line = Max(1, errors[j].line_number - 10)

\* C20: when the file does not exist or the log yields no occurrence,
\* generate_fix calls no collaborator: no lookup of the connection or the
\* repository, no fetch, no completion, no notification; it returns the
\* error of the missing file, or the message 'No errors found in log file'.
C20_NothingToFix ==
    AfterGenerateFix =>
        /\ disk = NoFile => calls = <<>> /\ result.ret = [error |-> "FileNotFoundError"]
        /\ (disk # NoFile /\ ScanContent(disk) = <<>>) =>
              calls = <<>> /\ result.ret = [message |-> NoErrorsMessage]
        /\ (disk # NoFile /\ ScanContent(disk) # <<>>) => calls # <<>>

\* generate_fix has answered 'No errors found in log file' although the
\* connection and the repository of the call exist
C20_Witness ==
    /\ AfterGenerateFix
    /\ disk = LineOk
    /\ result.ret = [message |-> NoErrorsMessage]
    /\ \E c \in db.connections : c.name = request.connection_name /\ c.is_active
    /\ db.repositories # {}

(***************************************************************************)
(* Properties of AIModel.save                                              *)
(***************************************************************************)
\* the save() that ran last
LastSave == table.saving[table.last]

\* C21: after save() calls that run one at a time at most one row has
\* is_default = True: a save() with self.is_default leaves its own row the only
\* default, and a save() without it leaves every other row as it was
C21_SingleDefaultSequential ==
    /\ Cardinality(Defaults(table.rows)) <= 1
    /\ LastSave.pc = "saved" =>
         /\ table.rows[LastSave.self.pk] = [saved |-> TRUE, is_default |-> LastSave.self.is_default]
         /\ LastSave.self.is_default => Defaults(table.rows) = {LastSave.self.pk}
         /\ ~LastSave.self.is_default =>
              \A k \in PKs \ {LastSave.self.pk} : table.rows[k] = LastSave.before[k]

\* a save() with self.is_default has taken the flag from another row, and a
\* save() without it has left another row's flag alone
C21_Witness ==
    /\ LastSave.pc = "saved"
    /\ LastSave.self.is_default
    /\ \E k \in Defaults(LastSave.before) : k # LastSave.self.pk /\ ~table.rows[k].is_default
    /\ \E p \in Savers :
         /\ table.saving[p].pc = "saved"
         /\ ~table.saving[p].self.is_default
         /\ Defaults(table.saving[p].before) \ {table.saving[p].self.pk} # {}

\* C22: when two save() calls on different rows, both with is_default = True,
\* interleave, at most one row has is_default = True once both have finished
C22_SingleDefaultInterleaved ==
    ( /\ \A p \in Savers : table.saving[p].pc = "saved" /\ table.saving[p].self.is_default
      /\ table.saving["admin"].self.pk # table.saving["shell"].self.pk )
        => Cardinality(Defaults(table.rows)) <= 1

(***************************************************************************)
(* Properties of _get_client, _refresh_token and gitlab_oauth_callback     *)
(***************************************************************************)
\* _get_client has just returned or raised; oauth.last tells which
AfterGetClient == oauth.last.op = "_get_client"

AfterCallback == oauth.last.op = "gitlab_oauth_callback"

\* the three stored fields the OAuth exchange is about
Tokens(row) == <<row.access_token, row.refresh_token, row.token_expires_at>>

\* C23: a client that _get_client returns uses the connection's access token,
\* and that token is not past token_expires_at at that moment
C23_ClientTokenNotExpired ==
    (AfterGetClient /\ oauth.last.raised = "") =>
        /\ oauth.service._client = oauth.service.connection.access_token
        /\ ~Expired(oauth.service.connection, oauth.now)

\* C24: a refresh answered with a status other than 200 clears and stores both
\* tokens and the call raises ValueError; from then on, until the callback
\* stores tokens again, every _get_client raises and sends no refresh request
C24_RefusedRefreshClearsTokens ==
    AfterGetClient =>
        /\ (oauth.last.posts > 0 /\ oauth.last.status \notin {"200", "raises"}) =>
              /\ oauth.row.access_token = NoToken /\ oauth.row.refresh_token = NoToken
              /\ oauth.service.connection.access_token = NoToken
              /\ oauth.service.connection.refresh_token = NoToken
              /\ oauth.last.raised = "ValueError"
        /\ oauth.last.refused_before =>
              oauth.last.raised = "ValueError" /\ oauth.last.posts = 0

\* a refresh was refused, and a later _get_client, the token still expired,
\* has raised without a request
C24_Witness ==
    /\ AfterGetClient
    /\ oauth.last.refused_before
    /\ oauth.last.raised = "ValueError"
    /\ oauth.last.posts = 0
    /\ Expired(oauth.service.connection, oauth.now)
    /\ Tokens(oauth.row) = Tokens(oauth.last.before)

\* C25: the callback changes the stored access_token, refresh_token and
\* token_expires_at only when the token endpoint answered 200; with an error
\* parameter, without a code or with an empty client secret no request is sent
C25_TokensChangeOnlyOn200 ==
    AfterCallback =>
        /\ oauth.last.path # "Successfully connected" => Tokens(oauth.row) = Tokens(oauth.last.before)
        /\ Tokens(oauth.row) # Tokens(oauth.last.before) => oauth.last.status = "200"
        /\ oauth.last.path \in {"OAuth error", "No authorization code received",
                                "Client Secret is empty", "GitLab connection not found"}
              <=> oauth.last.posts = 0

\* the token endpoint refused the code and the tokens stored before are still there
C25_Witness ==
    /\ AfterCallback
    /\ oauth.last.path = "OAuth token exchange failed"
    /\ oauth.last.posts = 1
    /\ oauth.row.access_token # NoToken
    /\ Tokens(oauth.row) = Tokens(oauth.last.before)

(***************************************************************************)
(* Properties of MCPServer.run                                             *)
(***************************************************************************)
\* the lines read so far that are not blank after strip()
Answerable == SelectSeq(SubSeq(stdio.stdin, 1, stdio.read), LAMBDA l : l.json # "blank")

\* C26: run has written one response for every line read that is not blank,
\* in the order of the lines, and none for a blank one; a result and an error
\* of the tools/call or method level carry the id of their request; and the
\* loop ends only at the end of the file (a KeyboardInterrupt aside), whatever
\* the lines were
C26_OneResponsePerLine ==
    /\ Len(stdio.stdout) = Len(Answerable)
    /\ \A k \in 1..Min(Len(stdio.stdout), Len(Answerable)) :
         (stdio.stdout[k].type = "result" \/ stdio.stdout[k].code \in {-32601, -32603})
            /\ Answerable[k].json = "object" /\ Answerable[k].params = "object"
              => stdio.stdout[k].id = Answerable[k].id
    /\ stdio.loop \in {"running", "end of file", "Server shutting down"}
    /\ stdio.loop = "end of file" => stdio.read = Len(stdio.stdin)

====
